---- MODULE Spec2Model ----
(***************************************************************************)
(* State-machine model of the ingestion pipeline of ib-data-ingestion:     *)
(* the loaders (pipelines/template/load.py, pipelines/source_1/load.py,    *)
(* src/utils/db.py), the extractors, the validators and the runner.        *)
(* Each component has its own variables; a specification starts one        *)
(* component (or the runner, which drives several) and leaves the others   *)
(* idle.                                                                   *)
(***************************************************************************)
EXTENDS Integers, Sequences, FiniteSets, TLC

VARIABLES
    \* ---- utils/db.py: DatabaseManager._pool (class attribute)
    pool,
    \* ---- pipelines/template/load.py: a second load of the same process
    peer_pc,      \* idle, init, loading, done
    \* ---- pipelines/template/load.py: DataLoader.load / _load_batch
    tl_pc,        \* position in load(): idle, init, loop, insert, finally, returned, raised
    tl_n,         \* len(data)
    tl_i,         \* loop variable i of load(): 0, 100, 200, ...
    tl_j,         \* records of the current batch already handled by _load_batch
    tl_results,   \* results of load()
    tl_batch,     \* results of the running _load_batch()
    tl_exc,       \* exception in flight in load(), "none" when there is none
    tl_attempts,  \* insert_bronze_data calls made by this load
    tl_inserted,  \* rows the database holds from this load (each insert autocommits)
    \* ---- src/utils/db.py: DatabaseManager.insert_bronze_data (psycopg2 variant)
    bz_pc,        \* idle, loop, commit, returned, raised
    bz_n,         \* len(data)
    bz_k,         \* records handled so far
    bz_results,   \* results of insert_bronze_data()
    bz_pending,   \* rows executed on the cursor and not yet committed
    bz_committed, \* rows committed
    \* ---- pipelines/source_1/load.py: DataLoader.load
    s1_pc,        \* idle, begin, ensure, insert, commit, returned, raised
    s1_data,      \* the list passed to load()
    s1_k,         \* records of data the for loop is done with
    s1_processed, \* records_processed
    s1_errors,    \* errors
    s1_result,    \* the LoadResult returned, NoResult before
    s1_exc,       \* exception that left load(), "none" when there is none
    s1_tx,        \* the transaction scope's connection: none, open, lost, committed, rolledback
    s1_lostAt,    \* records started when the transaction's connection was lost, -1 if it was not
    partitions,   \* the partitions of the bronze table, by date, as created
    rows,         \* rows of the bronze table, in insertion order
    \* ---- pipelines/template/extract.py: DataExtractor.fetch_data / _fetch_page
    ex_pc,        \* idle, loop, fetch, returned, raised
    ex_cfg,       \* config: rate_limit, retry_attempts, retry_delay
    ex_end,       \* end_date (start_date is StartDate), in half days
    ex_cur,       \* current_date
    ex_attempt,   \* attempt of the for loop of _fetch_page
    ex_all,       \* all_data
    ex_ret,       \* what fetch_data returned
    ex_exc,       \* exception that left fetch_data, "none" when there is none
    ex_log,       \* requests sent and sleeps taken, in order
    \* ---- pipelines/sources/source_1/extract.py: DataExtractor.fetch_data
    sx_pc,        \* idle, request, returned, raised
    sx_page,      \* page
    sx_all,       \* all_data
    sx_ret,       \* what fetch_data returned
    sx_exc,       \* exception that left fetch_data, "none" when there is none
    sx_log,       \* requests sent and sleeps taken, in order
    \* ---- src/qs_data_ingestion/main.py: PipelineRunner.run_pipeline
    run_pc,       \* idle, start, extract, load, completed, failed
    run_raw,      \* raw_data
    run_result,   \* the LoadResult run_pipeline returned, NoResult before
    run_exc,      \* exception that left run_pipeline, "none" when there is none
    metrics,      \* MetricsCollector.metrics[source_name]
    run_log,      \* log records the metrics check of the run wrote
    \* ---- src/utils/validation.py: DataValidator.validate
    dv_pc,        \* idle, call, done
    dv_schema,    \* self.schema
    dv_rules,     \* self.custom_rules
    dv_data,      \* the argument data
    dv_result,    \* the ValidationResult returned, or the exception raised
    \* ---- src/utils/validation.py: DataValidator._calculate_quality_score
    qs_pc,        \* idle, call, done
    qs_required,  \* self.schema['required']
    qs_data,      \* the argument data
    qs_score,     \* the score returned, in hundredths, None before
    \* ---- monitoring/alerts.py: AlertManager
    am_pc,        \* idle, ready
    am_config,    \* self.config
    am_n,         \* calls of check_alerts so far; the clock of utcnow()
    am_metrics,   \* the argument of the last call of check_alerts
    am_returned,  \* the list the last call returned
    alert_history,\* self.alert_history
    am_sent,      \* the alerts the SMTP server has accepted, in order
    am_smtp,      \* how the SMTP server behaves: up, down, first_fails
    am_failed,    \* the alerts whose dispatch failed and was logged
    am_exc,       \* exception that left the last check_alerts, "none" if none
    am_queried,   \* the history was queried after the last check
    am_filtered,  \* what get_alert_history returned, for each query
    \* ---- utils/monitoring.py: MetricsCollector
    mc_pc,        \* idle, ready (one source reports), shared (two sources report)
    mc_series,    \* the latency samples a source will report
    mc_metrics,   \* self.metrics['source_1']: total_records and error_count
    mc_latency,   \* self.metrics['source_1']['latency']
    mc_seen,      \* latency samples of source_1 recorded since its entry was new
    mc_updates,   \* updates so far that carried records or errors
    mc_log,       \* the log records of the last update of source_1
    mc_prev,      \* the log records of the update of source_1 before it
    mc_rest,      \* self.metrics without source_1: the entries of the other sources
    mc_call,      \* the last call on the collector: its operation and its source
    \* ---- src/monitoring/alerts.py: the AlertManager that keeps its alerts
    ia_pc,        \* idle, ready
    ia_alerts,    \* self.alerts
    ia_n,         \* calls of create_alert so far: the clock of the timestamps
    ia_call,      \* the last call: its operation and its level argument
    ia_ret,       \* what the last call returned
    ia_prev,      \* self.alerts as the last call found it
    ia_since,     \* calls of create_alert since the last clear_alerts
    \* ---- utils/db.py: the pool as concurrent source_1 loads share it
    cx_ref,       \* DatabaseManager._pool: the number of the pool, 0 for None
    cx_created,   \* pools asyncpg.create_pool has returned so far
    cx_load       \* the loads: where each is and the connections it holds and used

poolVars == <<pool, peer_pc>>
tlVars == <<tl_pc, tl_n, tl_i, tl_j, tl_results, tl_batch, tl_exc, tl_attempts, tl_inserted>>
bzVars == <<bz_pc, bz_n, bz_k, bz_results, bz_pending, bz_committed>>
s1Vars == <<s1_pc, s1_data, s1_k, s1_processed, s1_errors, s1_result, s1_exc,
            s1_tx, s1_lostAt, partitions, rows>>

exVars == <<ex_pc, ex_cfg, ex_end, ex_cur, ex_attempt, ex_all, ex_ret, ex_exc, ex_log>>
sxVars == <<sx_pc, sx_page, sx_all, sx_ret, sx_exc, sx_log>>
runVars == <<run_pc, run_raw, run_result, run_exc, metrics, run_log>>
dvVars == <<dv_pc, dv_schema, dv_rules, dv_data, dv_result>>
qsVars == <<qs_pc, qs_required, qs_data, qs_score>>
amVars == <<am_pc, am_config, am_n, am_metrics, am_returned, alert_history, am_sent,
            am_smtp, am_failed, am_exc, am_queried, am_filtered>>
mcVars == <<mc_pc, mc_series, mc_metrics, mc_latency, mc_seen, mc_updates, mc_log, mc_prev,
            mc_rest, mc_call>>
iaVars == <<ia_pc, ia_alerts, ia_n, ia_call, ia_ret, ia_prev, ia_since>>
cxVars == <<cx_ref, cx_created, cx_load>>
\* the components no stage of a pipeline run touches
monVars == <<amVars, mcVars, iaVars, cxVars>>

\* what the actions of one component leave alone
NotPeer == <<tlVars, bzVars, s1Vars, exVars, sxVars, runVars, dvVars, qsVars, monVars>>
NotTL == <<peer_pc, bzVars, s1Vars, exVars, sxVars, runVars, dvVars, qsVars, monVars>>
NotBZ == <<poolVars, tlVars, s1Vars, exVars, sxVars, runVars, dvVars, qsVars, monVars>>
NotS1 == <<peer_pc, tlVars, bzVars, exVars, sxVars, runVars, dvVars, qsVars, monVars>>
NotEX == <<poolVars, tlVars, bzVars, s1Vars, sxVars, runVars, dvVars, qsVars, monVars>>
NotSX == <<poolVars, tlVars, bzVars, s1Vars, exVars, runVars, dvVars, qsVars, monVars>>
NotDV == <<poolVars, tlVars, bzVars, s1Vars, exVars, sxVars, runVars, qsVars, monVars>>
NotQS == <<poolVars, tlVars, bzVars, s1Vars, exVars, sxVars, runVars, dvVars, monVars>>
NotAM == <<poolVars, tlVars, bzVars, s1Vars, exVars, sxVars, runVars, dvVars, qsVars, mcVars,
          iaVars, cxVars>>
NotIA == <<poolVars, tlVars, bzVars, s1Vars, exVars, sxVars, runVars, dvVars, qsVars, amVars,
          mcVars, cxVars>>
NotCX == <<poolVars, tlVars, bzVars, s1Vars, exVars, sxVars, runVars, dvVars, qsVars, amVars,
          mcVars, iaVars>>
NotMC == <<poolVars, tlVars, bzVars, s1Vars, exVars, sxVars, runVars, dvVars, qsVars, amVars,
          iaVars, cxVars>>

----------------------------------------------------------------------------
(* Bounds of the model *)

\* longest input list of the template loader: one full batch and a second one
MaxRecords == 101
\* the template loader is also run on every list of at most SmallLen records
SmallLen == 2
\* the first NumIds records of an input list carry a raw_id, the others none
NumIds == 2
\* longest input list of insert_bronze_data
MaxBronze == 3
\* longest input list of the source_1 loader when it runs alone
MaxS1 == 3
\* most items a source puts on one page
MaxCount == 2
\* most non-empty pages the paginated source holds
MaxPages == 2
\* most items it holds in all when a whole run follows the extraction
MaxRunRecords == 2
\* latest end_date of a template extraction, in half days after StartDate
MaxEnd == 3
\* largest configured retry_attempts
MaxRetryAttempts == 3
\* retry_attempts of the extractions of one page that show the backoff
MaxBackoffAttempts == 4
\* most fields of a schema and a record whose quality score is computed
MaxFields == 11
\* most calls of check_alerts on one AlertManager
MaxChecks == 2
\* most updates of the metrics of a source that carry records or errors
MaxUpdates == 3
\* most latency samples a source reports: one more than the window holds
MaxSamples == 101
\* most latency samples a source reports when two sources share the collector
MaxShared == 2
\* most loads that share the pool, and the pool's max_size (20 in db.py),
\* scaled down with them
NumLoads == 2
PoolMaxSize == 2
\* most calls of create_alert on one in-memory AlertManager
MaxAlerts == 4

----------------------------------------------------------------------------
(* Values shared by the components *)

None == "None"
Min(a, b) == IF a < b THEN a ELSE b
Max(a, b) == IF a > b THEN a ELSE b

\* Exceptions. asyncio.CancelledError derives from BaseException, every other
\* exception the model raises derives from Exception.
BaseOnly == {"cancelled"}

\* `except Exception` matches e
ExceptException_CatchesNothing(e) == FALSE
ExceptException(e) == e \notin BaseOnly

----------------------------------------------------------------------------
(* pipelines/template/load.py *)

batch_size == 100

IdNames == <<"r1", "r2", "r3", "r4">>
\* record.get('raw_id', 'unknown') of the record at position pos (1-based)
RawIdOf(pos) == IF pos <= NumIds THEN IdNames[pos] ELSE "unknown"

TLLens == {n \in 0..MaxRecords : n <= SmallLen \/ n >= batch_size}

NewResults(n) ==
    [total_records |-> n, successful_records |-> 0, failed_records |-> 0, errors |-> <<>>]
NewBatchResults ==
    [successful_records |-> 0, failed_records |-> 0, errors |-> <<>>]

\* len(data[i:i + batch_size])
BatchLen(n, i) == Min(batch_size, n - i)

\* _load_batch: the insert returned
BatchSuccess(b) == [b EXCEPT !.successful_records = @ + 1]
\* _load_batch: the except clause of the record loop
BatchFailure_NoCount(b, rid, e) ==
    [b EXCEPT !.errors = Append(@, [record_id |-> rid, error |-> e])]
BatchFailure(b, rid, e) ==
    [b EXCEPT !.failed_records = @ + 1,
              !.errors = Append(@, [record_id |-> rid, error |-> e])]

\* load: results[...] += batch_results[...]; results['errors'].extend(...)
Aggregate(r, b) ==
    [r EXCEPT !.successful_records = @ + b.successful_records,
              !.failed_records = @ + b.failed_records,
              !.errors = @ \o b.errors]

InitTL ==
    /\ tl_pc = "init"
    /\ tl_n \in TLLens
    /\ tl_i = 0
    /\ tl_j = 0
    /\ tl_results = NewResults(tl_n)
    /\ tl_batch = NewBatchResults
    /\ tl_exc = "none"
    /\ tl_attempts = 0
    /\ tl_inserted = 0

IdleTL ==
    /\ tl_pc = "idle"
    /\ tl_n = 0
    /\ tl_i = 0
    /\ tl_j = 0
    /\ tl_results = NewResults(0)
    /\ tl_batch = NewBatchResults
    /\ tl_exc = "none"
    /\ tl_attempts = 0
    /\ tl_inserted = 0

\* DatabaseManager.get_connection: the pool after it, created if there was
\* none
get_connection(p) == IF p = None THEN "open" ELSE p

\* no second load runs
IdlePool ==
    /\ pool = None
    /\ peer_pc = "idle"

\* await DatabaseManager.initialize(): creates the pool when there is none;
\* asyncpg.create_pool may raise
TL_Initialize ==
    /\ tl_pc = "init"
    /\ \/ /\ pool' = "open"
          /\ tl_pc' = "loop"
          /\ UNCHANGED tl_exc
       \/ /\ pool = None
          /\ tl_exc' = "initialize"
          /\ tl_pc' = "finally"
          /\ UNCHANGED pool
    /\ UNCHANGED <<tl_n, tl_i, tl_j, tl_results, tl_batch, tl_attempts, tl_inserted, NotTL>>

\* for i in range(0, len(data), batch_size): batch = data[i:i + batch_size];
\* after the last batch: log and return results (through finally)
TL_NextBatch ==
    /\ tl_pc = "loop"
    /\ IF tl_i < tl_n
       THEN /\ tl_batch' = NewBatchResults
            /\ tl_j' = 0
            /\ tl_pc' = "insert"
       ELSE /\ tl_pc' = "finally"
            /\ UNCHANGED <<tl_batch, tl_j>>
    /\ UNCHANGED <<pool, tl_n, tl_i, tl_results, tl_exc, tl_attempts, tl_inserted, NotTL>>

\* _load_batch, one record: await DatabaseManager.insert_bronze_data(...);
\* the insert returns, raises, or the task is cancelled while it waits
TL_Insert ==
    /\ tl_pc = "insert"
    /\ tl_j < BatchLen(tl_n, tl_i)
    /\ tl_attempts' = tl_attempts + 1
    /\ \E out \in {"ok", "insert_error", "cancelled"} :
         IF out = "ok"
         THEN /\ tl_batch' = BatchSuccess(tl_batch)
              /\ tl_inserted' = tl_inserted + 1
              /\ tl_j' = tl_j + 1
              /\ pool' = get_connection(pool)
              /\ UNCHANGED <<tl_pc, tl_exc>>
         ELSE IF ExceptException(out)
         THEN /\ tl_batch' = BatchFailure(tl_batch, RawIdOf(tl_i + tl_j + 1), out)
              /\ tl_j' = tl_j + 1
              /\ pool' \in {pool, get_connection(pool)}
              /\ UNCHANGED <<tl_pc, tl_exc, tl_inserted>>
         ELSE /\ tl_exc' = out
              /\ tl_pc' = "finally"
              /\ pool' \in {pool, get_connection(pool)}
              /\ UNCHANGED <<tl_batch, tl_j, tl_inserted>>
    /\ UNCHANGED <<tl_n, tl_i, tl_results, NotTL>>

\* _load_batch returns; load adds the batch results to its own
TL_BatchDone ==
    /\ tl_pc = "insert"
    /\ tl_j = BatchLen(tl_n, tl_i)
    /\ tl_results' = Aggregate(tl_results, tl_batch)
    /\ tl_i' = tl_i + batch_size
    /\ tl_pc' = "loop"
    /\ UNCHANGED <<pool, tl_n, tl_j, tl_batch, tl_exc, tl_attempts, tl_inserted, NotTL>>

\* finally: await DatabaseManager.close(); then the pending return or raise.
\* pool.close() may itself raise, which replaces a pending return.
TL_Close ==
    /\ tl_pc = "finally"
    /\ pool' = None
    /\ \/ /\ tl_pc' = IF tl_exc = "none" THEN "returned" ELSE "raised"
          /\ UNCHANGED tl_exc
       \/ /\ pool # None
          /\ tl_exc' = "close"
          /\ tl_pc' = "raised"
    /\ UNCHANGED <<tl_n, tl_i, tl_j, tl_results, tl_batch, tl_attempts, tl_inserted, NotTL>>

\* A second DataLoader.load of the same process, as far as it touches the
\* pool. Line 62: await DatabaseManager.initialize()
Peer_Initialize ==
    /\ peer_pc = "init"
    /\ pool' = "open"
    /\ peer_pc' = "loading"
    /\ UNCHANGED NotPeer

\* one insert of the second load: get_connection creates the pool when there
\* is none
Peer_Insert ==
    /\ peer_pc = "loading"
    /\ pool' = get_connection(pool)
    /\ UNCHANGED <<peer_pc, NotPeer>>

\* finally: await DatabaseManager.close()
Peer_Close ==
    /\ peer_pc = "loading"
    /\ pool' = None
    /\ peer_pc' = "done"
    /\ UNCHANGED NotPeer

----------------------------------------------------------------------------
(* src/utils/db.py: insert_bronze_data (list variant, psycopg2) *)

InitBZ ==
    /\ bz_pc = "loop"
    /\ bz_n \in 0..MaxBronze
    /\ bz_k = 0
    /\ bz_results = NewResults(bz_n)
    /\ bz_pending = 0
    /\ bz_committed = 0

IdleBZ ==
    /\ bz_pc = "idle"
    /\ bz_n = 0
    /\ bz_k = 0
    /\ bz_results = NewResults(0)
    /\ bz_pending = 0
    /\ bz_committed = 0

\* the except clause of the record loop: errors.append(str(e))
BronzeFailure(r, e) ==
    [r EXCEPT !.failed_records = @ + 1, !.errors = Append(@, e)]

\* for record in data: cursor.execute(INSERT ...) returns or raises
BZ_Record ==
    /\ bz_pc = "loop"
    /\ bz_k < bz_n
    /\ bz_k' = bz_k + 1
    /\ \/ /\ bz_results' = BatchSuccess(bz_results)
          /\ bz_pending' = bz_pending + 1
       \/ /\ bz_results' = BronzeFailure(bz_results, "Insert error")
          /\ UNCHANGED bz_pending
    /\ UNCHANGED <<bz_pc, bz_n, bz_committed, NotBZ>>

\* self.connection.commit(); return results -- or commit raises: rollback, raise
BZ_Commit ==
    /\ bz_pc = "loop"
    /\ bz_k = bz_n
    /\ \/ /\ bz_committed' = bz_pending
          /\ bz_pending' = 0
          /\ bz_pc' = "returned"
       \/ /\ bz_pending' = 0
          /\ bz_pc' = "raised"
          /\ UNCHANGED bz_committed
    /\ UNCHANGED <<bz_n, bz_k, bz_results, NotBZ>>

----------------------------------------------------------------------------
(* pipelines/sources/source_1/transform.py *)

\* Raw records of source_1 as the model draws them: record.get("id") and
\* record.get("timestamp"), None when the key is absent, and the payload
\* "data". A timestamp is the ISO text of a date in Dates, with a time of day
\* or without, or text that does not parse.
Dates == {"d1", "d2"}
Timestamps == {"d1T08", "d1T20", "d2T08"}
IsoTimestamps == Dates \cup Timestamps

RawRecord(id, ts, data) == [id |-> id, timestamp |-> ts, data |-> data]

\* _load_validation_schema: "required": ["id", "timestamp", "data"], with
\* timestamp a date-time ("data" is present in every record of the model)
SchemaValid(raw) == raw.id # None /\ raw.timestamp \in IsoTimestamps

\* _transform_record
transform_record_NoId(record) ==
    [source |-> "source_1",
     raw_data |-> record,
     source_timestamp |-> record.timestamp,
     raw_id |-> None,
     validation_status |-> "valid"]
transform_record(record) ==
    [source |-> "source_1",
     raw_data |-> record,
     source_timestamp |-> record.timestamp,
     raw_id |-> record.id,
     validation_status |-> "valid"]

\* _validate_record: all(field in record for field in required_fields)
validate_record(record) ==
    {"source", "raw_data", "source_timestamp", "raw_id"} \subseteq DOMAIN record

\* transform: the records that pass _validate_record, in input order
transform(raw_data) ==
    LET F[i \in 0..Len(raw_data)] ==
            IF i = 0 THEN <<>>
            ELSE LET t == transform_record(raw_data[i])
                 IN IF validate_record(t) THEN Append(F[i - 1], t) ELSE F[i - 1]
    IN F[Len(raw_data)]

----------------------------------------------------------------------------
(* pipelines/source_1/load.py *)

NoResult == [success |-> FALSE, records_processed |-> -1, errors |-> <<>>]
LoadResult_Succeeded(success, n, errs) == [success |-> TRUE, records_processed |-> n, errors |-> errs]
LoadResult(success, n, errs) == [success |-> success, records_processed |-> n, errors |-> errs]

\* f"Error loading record {record.get('raw_id')}: {str(e)}"
RecordError(rid, e) == [scope |-> "record", record_id |-> rid, error |-> e]
\* f"Error in load transaction: {str(e)}"
TransactionError(e) == [scope |-> "transaction", record_id |-> None, error |-> e]

\* the records the loader is run on when it runs alone
S1Kinds ==
    {RawRecord("r1", "d1T08", <<0, 1>>), RawRecord("r2", "d2T08", <<0, 2>>),
     RawRecord(None, "bad", <<0, 3>>), RawRecord("r3", "d1T20", <<0, 4>>)}
S1Inputs ==
    UNION {[1..n -> {transform_record(r) : r \in S1Kinds}] : n \in 0..MaxS1}

InitS1Idle(pc, data) ==
    /\ s1_pc = pc
    /\ s1_data = data
    /\ s1_k = 0
    /\ s1_processed = 0
    /\ s1_errors = <<>>
    /\ s1_result = NoResult
    /\ s1_exc = "none"
    /\ s1_tx = "none"
    /\ s1_lostAt = -1
    /\ partitions = <<>>
    /\ rows = <<>>

InitS1 == \E data \in S1Inputs : InitS1Idle("begin", data)
IdleS1 == InitS1Idle("idle", <<>>)

\* the for loop moves to the next record, or the transaction scope is left
S1AfterRecord(k) == IF k < Len(s1_data) THEN "ensure" ELSE "commit"

\* the except clause of the record loop: errors.append(error_msg); continue
S1RecordFailed(e) ==
    /\ s1_errors' = Append(s1_errors, RecordError(s1_data[s1_k + 1].raw_id, e))
    /\ s1_k' = s1_k + 1
    /\ s1_pc' = S1AfterRecord(s1_k + 1)
    /\ UNCHANGED <<s1_processed, s1_result, s1_exc, s1_tx>>

\* an exception neither except clause catches leaves load(); the transaction
\* scope rolls back on the way out
S1Propagate(e) ==
    /\ s1_exc' = e
    /\ s1_pc' = "raised"
    /\ s1_tx' = IF s1_tx \in {"open", "lost"} THEN "rolledback" ELSE s1_tx
    /\ UNCHANGED <<s1_k, s1_processed, s1_errors, s1_result>>

\* the outer except clause: one error for the transaction
S1TransactionFailed(e) ==
    /\ s1_result' = LoadResult(FALSE, s1_processed, <<TransactionError(e)>>)
    /\ s1_pc' = "returned"
    /\ s1_tx' = IF s1_tx \in {"open", "lost"} THEN "rolledback" ELSE s1_tx
    /\ UNCHANGED <<s1_k, s1_processed, s1_errors, s1_exc>>

\* async with self.db.transaction(): the pool is created when there is none,
\* a connection is acquired and BEGIN is sent
S1_Begin ==
    /\ s1_pc = "begin"
    /\ \E out \in {"ok", "db_error", "cancelled"} :
         IF out = "ok"
         THEN /\ pool' = "open"
              /\ s1_tx' = "open"
              /\ s1_pc' = S1AfterRecord(0)
              /\ UNCHANGED <<s1_k, s1_processed, s1_errors, s1_result, s1_exc>>
         ELSE /\ pool' \in {pool, "open"}
              /\ IF ExceptException(out)
                 THEN S1TransactionFailed(out)
                 ELSE S1Propagate(out)
    /\ UNCHANGED <<s1_data, s1_lostAt, partitions, rows, NotS1>>

\* datetime.fromisoformat(timestamp).date().isoformat()
PartitionDate_Identity(timestamp) == timestamp
PartitionDate(timestamp) ==
    IF timestamp \in {"d1", "d1T08", "d1T20"} THEN "d1" ELSE "d2"

\* The database function create_partition_if_not_exists(source, date): the
\* partition of the date is created when the table has none for it.
create_partition_Always(parts, partition_date) == Append(parts, partition_date)
create_partition_if_not_exists(parts, partition_date) ==
    IF \E i \in 1..Len(parts) : parts[i] = partition_date
    THEN parts
    ELSE Append(parts, partition_date)

\* utils/db.py, DatabaseManager.create_partition
create_partition(parts, partition_date) ==
    create_partition_if_not_exists(parts, partition_date)

\* await self._ensure_partition(record['source_timestamp']):
\* datetime.fromisoformat raises on None and on text that is no ISO date;
\* otherwise create_partition runs create_partition_if_not_exists
S1_Ensure ==
    /\ s1_pc = "ensure"
    /\ LET ts == s1_data[s1_k + 1].source_timestamp
       IN IF ts \notin IsoTimestamps
          THEN /\ S1RecordFailed("fromisoformat")
               /\ UNCHANGED partitions
          ELSE /\ \E out \in {"ok", "db_error", "cancelled"} :
                    IF out = "ok"
                    THEN /\ partitions' = create_partition(partitions, PartitionDate(ts))
                         /\ s1_pc' = "insert"
                         /\ UNCHANGED <<s1_k, s1_processed, s1_errors, s1_result,
                                        s1_exc, s1_tx>>
                    ELSE /\ UNCHANGED partitions
                         /\ IF ExceptException(out)
                            THEN S1RecordFailed(out)
                            ELSE S1Propagate(out)
    /\ UNCHANGED <<pool, s1_data, s1_lostAt, rows, NotS1>>

\* the row _insert_record writes
BronzeRow(record) ==
    [source |-> record.source,
     raw_data |-> record.raw_data,
     source_timestamp |-> record.source_timestamp,
     raw_id |-> record.raw_id,
     validation_status |-> record.validation_status]

\* await self._insert_record(record); records_processed += 1
S1_Insert ==
    /\ s1_pc = "insert"
    /\ \E out \in {"ok", "insert_error", "cancelled"} :
         IF out = "ok"
         THEN /\ rows' = Append(rows, BronzeRow(s1_data[s1_k + 1]))
              /\ s1_processed' = s1_processed + 1
              /\ s1_k' = s1_k + 1
              /\ s1_pc' = S1AfterRecord(s1_k + 1)
              /\ UNCHANGED <<s1_errors, s1_result, s1_exc, s1_tx>>
         ELSE /\ UNCHANGED rows
              /\ IF ExceptException(out)
                 THEN S1RecordFailed(out)
                 ELSE S1Propagate(out)
    /\ UNCHANGED <<pool, s1_data, s1_lostAt, partitions, NotS1>>

\* the transaction scope is left: COMMIT on its connection, then
\* return LoadResult(success=len(errors) == 0, ...); a failing COMMIT is
\* caught by the outer except clause
S1_Commit ==
    /\ s1_pc = "commit"
    /\ \E out \in {"ok", "db_error", "cancelled"} :
         IF out = "ok"
         THEN /\ s1_tx = "open"
              /\ s1_tx' = "committed"
              /\ s1_result' = LoadResult(Len(s1_errors) = 0, s1_processed, s1_errors)
              /\ s1_pc' = "returned"
              /\ UNCHANGED <<s1_k, s1_processed, s1_errors, s1_exc>>
         ELSE IF ExceptException(out)
              THEN S1TransactionFailed(out)
              ELSE S1Propagate(out)
    /\ UNCHANGED <<pool, s1_data, s1_lostAt, partitions, rows, NotS1>>

\* the environment: the connection that holds the open transaction is lost
\* while the record loop runs
S1_TxLost ==
    /\ s1_pc \in {"ensure", "insert"}
    /\ s1_tx = "open"
    /\ s1_tx' = "lost"
    /\ s1_lostAt' = IF s1_pc = "insert" THEN s1_k + 1 ELSE s1_k
    /\ UNCHANGED <<pool, s1_pc, s1_data, s1_k, s1_processed, s1_errors, s1_result,
                   s1_exc, partitions, rows, NotS1>>

----------------------------------------------------------------------------
(* Requests and sleeps of an extraction, as the log records them *)

RequestEv(page, attempt, out, n) ==
    [ev |-> "request", page |-> page, attempt |-> attempt, out |-> out, n |-> n, ms |-> 0]
SleepEv(why, ms) ==
    [ev |-> "sleep", page |-> 0, attempt |-> 0, out |-> why, n |-> 0, ms |-> ms]

NoReturn == [returned |-> FALSE, data |-> <<>>]
Return(data) == [returned |-> TRUE, data |-> data]

----------------------------------------------------------------------------
(* pipelines/template/extract.py *)

\* configurations: rate_limit in requests per minute (100 is the default and
\* the tests' value), retry_delay in seconds (5 is the default, 1 the tests')
RateLimits == {100, 10}
RetryDelays == {1, 5}
Configs ==
    [rate_limit : RateLimits, retry_attempts : 0..MaxRetryAttempts, retry_delay : RetryDelays]

\* dates count half days: timedelta(days=1)
Day == 2
StartDate == 0

\* asyncio.sleep(60 / self.rate_limit), in milliseconds
RateLimitDelay(cfg) == 60000 \div cfg.rate_limit
\* asyncio.sleep(self.retry_delay * (attempt + 1)), in milliseconds
BackoffDelay_Constant(cfg, attempt) == 1000 * cfg.retry_delay
BackoffDelay(cfg, attempt) == 1000 * cfg.retry_delay * (attempt + 1)

\* What a request can end in besides a page. session.get raises
\* ClientConnectionError when the source cannot be reached;
\* response.raise_for_status() raises ClientResponseError on an HTTP error
\* status; response.json() raises ContentTypeError on a body that is not
\* announced as JSON and JSONDecodeError on a body that is no JSON.
\* ContentTypeError derives from ClientResponseError, and that and
\* ClientConnectionError from aiohttp.ClientError; JSONDecodeError is a
\* ValueError. A request that outlasts the timeout of the session
\* (aiohttp.ClientSession() has a total timeout of 300 seconds) raises
\* asyncio.TimeoutError, which is no ClientError.
ClientErrors == {"ClientConnectionError", "ClientResponseError", "ContentTypeError"}
RequestErrors == ClientErrors \cup {"JSONDecodeError", "TimeoutError"}

\* except aiohttp.ClientError
IsClientError(e) == e \in ClientErrors

\* if attempt == self.retry_attempts - 1: raise
IsFinalAttempt_OneMore(cfg, attempt) == attempt = cfg.retry_attempts
IsFinalAttempt(cfg, attempt) == attempt = cfg.retry_attempts - 1

\* the items of a page, each stamped with _metadata
TemplateItems(date, n) ==
    [k \in 1..n |-> [page |-> date, idx |-> k, metadata |-> "fetched"]]

InitEXIdle(pc, cfg, end) ==
    /\ ex_pc = pc
    /\ ex_cfg = cfg
    /\ ex_end = end
    /\ ex_cur = StartDate
    /\ ex_attempt = 0
    /\ ex_all = <<>>
    /\ ex_ret = NoReturn
    /\ ex_exc = "none"
    /\ ex_log = <<>>

InitEX == \E cfg \in Configs, end \in (StartDate - 1)..MaxEnd : InitEXIdle("loop", cfg, end)
IdleEX ==
    InitEXIdle("idle", [rate_limit |-> 100, retry_attempts |-> 3, retry_delay |-> 5], StartDate)

\* while current_date < end_date
InRange_Closed(current_date, end_date) == current_date <= end_date
InRange(current_date, end_date) == current_date < end_date

\* an exception leaves _fetch_page and then fetch_data (log, raise)
EXRaise(e) ==
    /\ ex_exc' = e
    /\ ex_pc' = "raised"
    /\ UNCHANGED <<ex_cur, ex_attempt, ex_all, ex_ret>>

\* while current_date < end_date: await asyncio.sleep(60 / self.rate_limit)
\* and the call of _fetch_page; after the loop: return all_data
EX_Loop ==
    /\ ex_pc = "loop"
    /\ IF InRange(ex_cur, ex_end)
       THEN /\ ex_log' = Append(ex_log, SleepEv("rate", RateLimitDelay(ex_cfg)))
            /\ ex_attempt' = 0
            /\ ex_pc' = "fetch"
            /\ UNCHANGED ex_ret
       ELSE /\ ex_ret' = Return(ex_all)
            /\ ex_pc' = "returned"
            /\ UNCHANGED <<ex_log, ex_attempt>>
    /\ UNCHANGED <<ex_cfg, ex_end, ex_cur, ex_all, ex_exc, NotEX>>

\* _fetch_page, one turn of `for attempt in range(self.retry_attempts)`: the
\* request returns a page, fails with a ClientError or fails otherwise. When
\* range() is exhausted _fetch_page returns None and all_data.extend(None)
\* raises TypeError.
EX_Fetch ==
    /\ ex_pc = "fetch"
    /\ IF ex_attempt >= ex_cfg.retry_attempts
       THEN /\ EXRaise("TypeError")
            /\ UNCHANGED ex_log
       ELSE \E out \in {"ok"} \cup RequestErrors :
              IF out = "ok"
              THEN \E n \in 0..MaxCount :
                     /\ ex_log' = Append(ex_log, RequestEv(ex_cur, ex_attempt, out, n))
                     /\ ex_all' = ex_all \o TemplateItems(ex_cur, n)
                     /\ ex_cur' = ex_cur + Day
                     /\ ex_pc' = "loop"
                     /\ UNCHANGED <<ex_attempt, ex_ret, ex_exc>>
              ELSE IF IsClientError(out) /\ ~IsFinalAttempt(ex_cfg, ex_attempt)
              THEN /\ ex_log' = ex_log \o <<RequestEv(ex_cur, ex_attempt, out, 0),
                                            SleepEv("backoff", BackoffDelay(ex_cfg, ex_attempt))>>
                   /\ ex_attempt' = ex_attempt + 1
                   /\ UNCHANGED <<ex_pc, ex_cur, ex_all, ex_ret, ex_exc>>
              ELSE /\ ex_log' = Append(ex_log, RequestEv(ex_cur, ex_attempt, out, 0))
                   /\ EXRaise(out)
    /\ UNCHANGED <<ex_cfg, ex_end, NotEX>>

----------------------------------------------------------------------------
(* pipelines/sources/source_1/extract.py *)

\* "per_page": 100 is the request's page size; the source of the model puts
\* at most MaxCount items on a page and has at most MaxPages non-empty pages
IdTable ==
    << <<"p1k1", "p1k2", "p1k3">>, <<"p2k1", "p2k2", "p2k3">>,
       <<"p3k1", "p3k2", "p3k3">>, <<"p4k1", "p4k2", "p4k3">> >>

\* what the source can put on a page: complete items and items without "id"
ItemKinds == {"full", "no_id"}
Item(page, k, kind) ==
    RawRecord(IF kind = "no_id" THEN None ELSE IdTable[page][k], "d1", <<page, k>>)
PageItems(page, kinds) == [k \in 1..Len(kinds) |-> Item(page, k, kinds[k])]
\* the items the source may still hold
ItemsLeft == IF run_pc = "idle" THEN MaxCount ELSE Min(MaxCount, MaxRunRecords - Len(sx_all))
PageKinds(page) ==
    UNION {[1..n -> ItemKinds] : n \in 0..(IF page <= MaxPages THEN ItemsLeft ELSE 0)}

\* await asyncio.sleep(1), in milliseconds
PageDelay == 1000

\* if not data.get("items"): break
PageIsEmpty_OrShort(items) == Len(items) <= 1
PageIsEmpty(items) == Len(items) = 0

InitSXIdle(pc) ==
    /\ sx_pc = pc
    /\ sx_page = 1
    /\ sx_all = <<>>
    /\ sx_ret = NoReturn
    /\ sx_exc = "none"
    /\ sx_log = <<>>

InitSX == InitSXIdle("request")
IdleSX == InitSXIdle("idle")

\* one turn of `while True`: data = await self._make_request("data", params);
\* an empty page ends the loop and fetch_data returns all_data; otherwise the
\* items are added, page += 1 and await asyncio.sleep(1). An exception of the
\* request is logged and raised again.
SX_Request ==
    /\ sx_pc = "request"
    /\ \/ \E kinds \in PageKinds(sx_page) :
            LET items == PageItems(sx_page, kinds)
            IN IF PageIsEmpty(items)
               THEN /\ sx_log' = Append(sx_log, RequestEv(sx_page, 0, "ok", Len(items)))
                    /\ sx_ret' = Return(sx_all)
                    /\ sx_pc' = "returned"
                    /\ UNCHANGED <<sx_page, sx_all, sx_exc>>
               ELSE /\ sx_log' = sx_log \o <<RequestEv(sx_page, 0, "ok", Len(items)),
                                             SleepEv("rate", PageDelay)>>
                    /\ sx_all' = sx_all \o items
                    /\ sx_page' = sx_page + 1
                    /\ UNCHANGED <<sx_pc, sx_ret, sx_exc>>
       \/ \E out \in RequestErrors :
            /\ sx_log' = Append(sx_log, RequestEv(sx_page, 0, out, 0))
            /\ sx_exc' = out
            /\ sx_pc' = "raised"
            /\ UNCHANGED <<sx_page, sx_all, sx_ret>>
    /\ UNCHANGED NotSX

----------------------------------------------------------------------------
(* src/qs_data_ingestion/main.py: PipelineRunner.run_pipeline, run for the
   source whose loader returns a LoadResult (source_1) *)

\* utils/monitoring.py, MetricsCollector: error_rate in thousandths, latency
\* in seconds
collector_thresholds == [error_rate |-> 50, latency |-> 2]

\* sum(metrics['latency'])
RECURSIVE SumSeq(_)
SumSeq(seq) == IF seq = <<>> THEN 0 ELSE Head(seq) + SumSeq(Tail(seq))

\* error_count / total_records > threshold, the threshold in thousandths
ErrorRateExceeded(m, threshold) ==
    1000 * m.error_count > threshold * m.total_records
\* sum(latency) / len(latency) > threshold
MeanExceeds_Last(window, threshold) == window[Len(window)] > threshold
MeanExceeds(window, threshold) == SumSeq(window) > threshold * Len(window)

LogRecord(level, metric) == [level |-> level, metric |-> metric]

\* _check_alerts: the log records it writes
collector_check_alerts(m, window) ==
    (IF m.total_records > 0 /\ ErrorRateExceeded(m, collector_thresholds.error_rate)
     THEN <<LogRecord("WARNING", "error_rate")>>
     ELSE <<>>)
    \o (IF window # <<>> /\ MeanExceeds(window, collector_thresholds.latency)
        THEN <<LogRecord("WARNING", "latency")>>
        ELSE <<>>)

\* utils/monitoring.py: self.metrics[source] as record_ingestion_metrics
\* creates it
NewMetrics == [total_records |-> 0, error_count |-> 0]
NoMetrics == [total_records |-> -1, error_count |-> -1]

\* record_ingestion_metrics(source, {'records_processed': ..., 'errors': ...})
record_ingestion_metrics_Twice(m, processed, errors) ==
    LET cur == IF m = NoMetrics THEN NewMetrics ELSE m
    IN [total_records |-> cur.total_records + 2 * processed,
        error_count |-> cur.error_count + 2 * errors]
record_ingestion_metrics(m, processed, errors) ==
    LET cur == IF m = NoMetrics THEN NewMetrics ELSE m
    IN [total_records |-> cur.total_records + processed,
        error_count |-> cur.error_count + errors]

InitRunIdle(pc) ==
    /\ run_pc = pc
    /\ run_raw = <<>>
    /\ run_result = NoResult
    /\ run_exc = "none"
    /\ metrics = NoMetrics
    /\ run_log = <<>>

InitRun == InitRunIdle("start")
IdleRun == InitRunIdle("idle")

\* the except clause of run_pipeline logs and raises again; an exception it
\* does not catch leaves run_pipeline as well
RunFailed_Swallowed(e) ==
    /\ run_exc' = "none"
    /\ run_pc' = "completed"
    /\ UNCHANGED <<run_raw, run_result, metrics, run_log>>
RunFailed(e) ==
    /\ run_exc' = e
    /\ run_pc' = "failed"
    /\ UNCHANGED <<run_raw, run_result, metrics, run_log>>

\* the modules of the source are imported and the components built, then
\* extractor.fetch_data is awaited
Run_Start ==
    /\ run_pc = "start"
    /\ \/ /\ run_pc' = "extract"
          /\ sx_pc' = "request"
          /\ UNCHANGED <<run_raw, run_result, run_exc, metrics, run_log>>
       \/ /\ RunFailed("import_error")
          /\ UNCHANGED sx_pc
    /\ UNCHANGED <<poolVars, tlVars, bzVars, s1Vars, exVars, dvVars, qsVars, monVars,
                   sx_page, sx_all, sx_ret, sx_exc, sx_log>>

\* raw_data = await extractor.fetch_data(...);
\* transformed_data = transformer.transform(raw_data);
\* loader.load(transformed_data) is awaited
Run_Transform ==
    /\ run_pc = "extract"
    /\ sx_pc = "returned"
    /\ run_raw' = sx_ret.data
    /\ s1_data' = transform(sx_ret.data)
    /\ s1_pc' = "begin"
    /\ run_pc' = "load"
    /\ UNCHANGED <<run_result, run_exc, metrics, run_log>>
    /\ UNCHANGED <<poolVars, tlVars, bzVars, exVars, sxVars, dvVars, qsVars, monVars,
                   s1_k, s1_processed, s1_errors, s1_result, s1_exc, s1_tx,
                   s1_lostAt, partitions, rows>>

\* fetch_data raised
Run_ExtractFailed ==
    /\ run_pc = "extract"
    /\ sx_pc = "raised"
    /\ RunFailed(sx_exc)
    /\ UNCHANGED <<poolVars, tlVars, bzVars, s1Vars, exVars, sxVars, dvVars, qsVars, monVars>>

\* load returned: the metrics are recorded and load_result is returned
Run_Report ==
    /\ run_pc = "load"
    /\ s1_pc = "returned"
    /\ metrics' = record_ingestion_metrics(metrics, s1_result.records_processed,
                                           Len(s1_result.errors))
    /\ run_log' = collector_check_alerts(metrics', <<>>)
    /\ run_result' = s1_result
    /\ run_pc' = "completed"
    /\ UNCHANGED <<run_raw, run_exc>>
    /\ UNCHANGED <<poolVars, tlVars, bzVars, s1Vars, exVars, sxVars, dvVars, qsVars, monVars>>

\* load raised
Run_LoadFailed ==
    /\ run_pc = "load"
    /\ s1_pc = "raised"
    /\ RunFailed(s1_exc)
    /\ UNCHANGED <<poolVars, tlVars, bzVars, s1Vars, exVars, sxVars, dvVars, qsVars, monVars>>

----------------------------------------------------------------------------
(* src/utils/validation.py: DataValidator.validate *)

\* Values of a record's fields. A key that is missing is Absent; a string is
\* known by a number, string 1 being an ISO date-time and the others not.
Absent == [t |-> "absent", v |-> 0]
Null == [t |-> "null", v |-> 0]
Str(k) == [t |-> "str", v |-> k]
Num(n) == [t |-> "num", v |-> n]
IsoText == Str(1)
OtherText == Str(0)

\* the properties a schema describes, in the order of its "properties"
Fields == <<"id", "timestamp", "value", "count">>
FieldSet == {Fields[i] : i \in 1..Len(Fields)}

\* a subschema of "properties"; minimum and maximum are <<>> when not set
PropSchema(type, minimum, maximum) ==
    [type |-> type, minimum |-> minimum, maximum |-> maximum]
Unbounded(type) == PropSchema(type, <<>>, <<>>)
\* the range tests/unit/test_validation.py sets on 'value'
TestRange(type) == PropSchema(type, <<0>>, <<1000>>)

Schemas ==
    {[required |-> req,
      properties |-> [f \in FieldSet |->
                        CASE f = "id" -> Unbounded("string")
                          [] f = "timestamp" -> Unbounded("string")
                          [] f = "value" -> val
                          [] f = "count" -> cnt]] :
        req \in {<<>>, <<"id", "timestamp", "value">>},
        val \in {Unbounded("number"), TestRange("number")},
        cnt \in {Unbounded("number"), TestRange("number")}}

Records ==
    {[f \in FieldSet |->
        CASE f = "id" -> id
          [] f = "timestamp" -> ts
          [] f = "value" -> val
          [] f = "count" -> cnt] :
        id \in {Absent, OtherText, Num(123)},
        ts \in {Absent, IsoText, OtherText, Num(0)},
        val \in {Absent, Null, OtherText, Num(-100), Num(100), Num(2000)},
        cnt \in {Absent, Num(100), Num(2000)}}

\* A message of errors or warnings: what it is about, and what the text holds
\* that line 89 looks for: 'value' in e.lower(), and 'minimum' or 'maximum'
\* in e.lower().
Msg(kind, field, hasValue, hasMinMax) ==
    [kind |-> kind, field |-> field, hasValue |-> hasValue, hasMinMax |-> hasMinMax]

Present(data, f) == data[f].t # "absent"
HasType(val, type) ==
    \/ type = "string" /\ val.t = "str"
    \/ type = "number" /\ val.t = "num"
HasRange(ps) == ps.minimum # <<>> \/ ps.maximum # <<>>
BelowMinimum(ps, val) == val.t = "num" /\ ps.minimum # <<>> /\ val.v < ps.minimum[1]
AboveMaximum(ps, val) == val.t = "num" /\ ps.maximum # <<>> /\ val.v > ps.maximum[1]

\* str(e) of a jsonschema ValidationError is its message, the subschema the
\* failing keyword stands in and the instance it failed on, with their paths.
\* 'required' stands in the whole schema, so the text of a missing-property
\* error names every property and every keyword of the schema.
RequiredError(schema, f) ==
    Msg("required", f, "value" \in DOMAIN schema.properties,
        \E g \in DOMAIN schema.properties : HasRange(schema.properties[g]))

\* lines 52-60: the text of a type error on a string instance is replaced by
\* "'<value>' is not of a type(s) '<type>'"; on another instance it stays
\* str(e), which shows the property's subschema and On instance['<field>']
TypeError(schema, data, f) ==
    IF data[f].t = "str"
    THEN Msg("type", f, FALSE, FALSE)
    ELSE Msg("type", f, f = "value", HasRange(schema.properties[f]))

RangeError(kind, f) == Msg(kind, f, f = "value", TRUE)

\* the errors of iter_errors, the most relevant first: the errors at the
\* root (required) before the errors of the properties, each in schema order
RECURSIVE RequiredErrors(_, _, _)
RequiredErrors(schema, data, i) ==
    IF i > Len(schema.required) THEN <<>>
    ELSE (IF Present(data, schema.required[i]) THEN <<>>
          ELSE <<RequiredError(schema, schema.required[i])>>)
         \o RequiredErrors(schema, data, i + 1)

RECURSIVE PropertyErrors(_, _, _)
PropertyErrors(schema, data, i) ==
    IF i > Len(Fields) THEN <<>>
    ELSE LET f == Fields[i]
             ps == schema.properties[f]
         IN (CASE ~Present(data, f) -> <<>>
               [] Present(data, f) /\ ~HasType(data[f], ps.type) ->
                     <<TypeError(schema, data, f)>>
               [] BelowMinimum(ps, data[f]) -> <<RangeError("minimum", f)>>
               [] AboveMaximum(ps, data[f]) -> <<RangeError("maximum", f)>>
               [] OTHER -> <<>>)
            \o PropertyErrors(schema, data, i + 1)

iter_errors(schema, data) ==
    RequiredErrors(schema, data, 1) \o PropertyErrors(schema, data, 1)

\* self.validator.validate(data) raises best_match(iter_errors(data))
SchemaError(schema, data) ==
    LET es == iter_errors(schema, data)
    IN IF es = <<>> THEN <<>> ELSE <<Head(es)>>

\* validate_timestamp: timestamp.replace(...) raises AttributeError on a
\* value that is no string; fromisoformat raises ValueError on other text
validate_timestamp(val) ==
    CASE val.t # "str" -> "AttributeError"
      [] val = IsoText -> "True"
      [] OTHER -> "False"

\* lines 69-76: the warnings for data['value'] of type int or float
RangeWarnings(schema, data) ==
    LET ps == schema.properties["value"]
        val == data["value"]
    IN (IF BelowMinimum(ps, val) THEN <<Msg("below", "value", TRUE, TRUE)>> ELSE <<>>)
       \o (IF AboveMaximum(ps, val) THEN <<Msg("above", "value", TRUE, TRUE)>> ELSE <<>>)

\* Custom rules. "negative" is the rule of test_validation_with_custom_rules:
\* data['value'] < 0 gives (False, "Value cannot be negative"), a missing key
\* or a value that does not compare with 0 raises. "silent" rejects with no
\* message: (False, None).
RuleSets == {<<>>, <<"negative">>, <<"silent">>, <<"silent", "negative">>}
\* what rule(data) does: it raises, returns (False, message) ("rejected"),
\* returns (False, None) ("silent") or returns (True, None) ("passed")
RuleOutcome(rule, data) ==
    CASE rule = "negative" /\ data["value"].t = "absent" -> "KeyError"
      [] rule = "negative" /\ data["value"].t \in {"str", "null"} -> "TypeError"
      [] rule = "negative" /\ data["value"].v < 0 -> "rejected"
      [] rule = "silent" -> "silent"
      [] OTHER -> "passed"
RuleMessage(rule) == Msg("custom", "value", TRUE, FALSE)

\* lines 79-82, for the rules from i on: the errors appended, or <<"raised">>
\* in front of them when a rule raised
RECURSIVE RuleErrors(_, _, _)
RuleErrors(rules, data, i) ==
    IF i > Len(rules) THEN [raised |-> "none", errors |-> <<>>]
    ELSE LET out == RuleOutcome(rules[i], data)
             rest == RuleErrors(rules, data, i + 1)
         IN IF out \in {"KeyError", "TypeError"}
            THEN [raised |-> out, errors |-> <<>>]
            ELSE [raised |-> rest.raised,
                  errors |-> (IF out = "rejected" THEN <<RuleMessage(rules[i])>> ELSE <<>>)
                             \o rest.errors]

ValidationResult(is_valid, errors, warnings) ==
    [raised |-> "none", is_valid |-> is_valid, errors |-> errors, warnings |-> warnings]
ValidateRaised(e) ==
    [raised |-> e, is_valid |-> FALSE, errors |-> <<>>, warnings |-> <<>>]
NoValidation == ValidateRaised("not called")

\* line 89: the errors that read as a range violation of the value
ValueErrors(errors) == SelectSeq(errors, LAMBDA e : e.hasValue /\ e.hasMinMax)

\* lines 86-93: is_valid = len(errors) == 0; when the record has a key
\* 'value' and every error reads as a range violation of the value, the
\* errors become warnings and the record is valid
Reclassify_KeepsErrors(errors, warnings, hasValueKey) ==
    IF errors # <<>> /\ hasValueKey /\ Len(ValueErrors(errors)) = Len(errors)
    THEN ValidationResult(TRUE, errors, warnings \o ValueErrors(errors))
    ELSE ValidationResult(errors = <<>>, errors, warnings)
Reclassify(errors, warnings, hasValueKey) ==
    IF errors # <<>> /\ hasValueKey /\ Len(ValueErrors(errors)) = Len(errors)
    THEN ValidationResult(TRUE, <<>>, warnings \o ValueErrors(errors))
    ELSE ValidationResult(errors = <<>>, errors, warnings)

validate(schema, rules, data) ==
    LET schemaErrors == SchemaError(schema, data)
        ts == IF Present(data, "timestamp")
              THEN validate_timestamp(data["timestamp"]) ELSE "True"
        errors2 == schemaErrors \o
                   (IF ts = "False" THEN <<Msg("timestamp", "timestamp", FALSE, FALSE)>>
                    ELSE <<>>)
        warnings == RangeWarnings(schema, data)
        custom == RuleErrors(rules, data, 1)
        errors == errors2 \o custom.errors
    IN CASE ts = "AttributeError" -> ValidateRaised(ts)
         [] ts # "AttributeError" /\ custom.raised # "none" -> ValidateRaised(custom.raised)
         [] OTHER -> Reclassify(errors, warnings, Present(data, "value"))

InitDVIdle(pc, schema, rules, data) ==
    /\ dv_pc = pc
    /\ dv_schema = schema
    /\ dv_rules = rules
    /\ dv_data = data
    /\ dv_result = NoValidation

InitDV ==
    \E schema \in Schemas, rules \in RuleSets, data \in Records :
        InitDVIdle("call", schema, rules, data)
IdleDV == InitDVIdle("idle", <<>>, <<>>, <<>>)

\* result = validator.validate(data)
DV_Validate ==
    /\ dv_pc = "call"
    /\ dv_result' = validate(dv_schema, dv_rules, dv_data)
    /\ dv_pc' = "done"
    /\ UNCHANGED <<dv_schema, dv_rules, dv_data, NotDV>>

----------------------------------------------------------------------------
(* src/utils/validation.py: DataValidator._calculate_quality_score *)

\* the strings "" and "   "
EmptyText == Str(2)
BlankText == Str(3)
\* value.strip()
Strip(val) == IF val = BlankText THEN EmptyText ELSE val

\* The records scored: fields 1..MaxFields, of which the first `a` are no keys
\* of the record, the next `n` are None, the next `e` are empty or blank
\* strings and the others hold text or a number.
ScoreFields == 1..MaxFields
ScoreRecord(a, n, e) ==
    [f \in ScoreFields |->
        CASE f <= a -> Absent
          [] f > a /\ f <= a + n -> Null
          [] f > a + n /\ f <= a + n + e -> (IF f % 2 = 0 THEN EmptyText ELSE BlankText)
          [] OTHER -> (IF f % 2 = 0 THEN OtherText ELSE Num(0))]
ScoreRecords ==
    {ScoreRecord(t[1], t[2], t[3]) : t \in
        {u \in (0..MaxFields) \X (0..MaxFields) \X (0..MaxFields) :
            u[1] + u[2] + u[3] <= MaxFields}}
\* schema['required']: the first r fields
ScoreRequired == {[i \in 1..r |-> i] : r \in 0..MaxFields}

\* line 146, max(0.0, min(1.0, score)), in hundredths
Clamp_None(score) == score
Clamp(score) == Max(0, Min(100, score))

\* the score in hundredths: 1.0 is 100, the penalties are 10, 5 and 2
calculate_quality_score(required, data) ==
    LET missing_fields == SelectSeq(required, LAMBDA field : ~Present(data, field))
        values == {f \in DOMAIN data : Present(data, f)}
        null_count == Cardinality({f \in values : data[f] = Null})
        empty_string_count ==
            Cardinality({f \in values : data[f].t = "str" /\ Strip(data[f]) = EmptyText})
        score == 100 - 10 * Len(missing_fields) - 5 * null_count - 2 * empty_string_count
    IN  Clamp(score)

InitQSIdle(pc, required, data) ==
    /\ qs_pc = pc
    /\ qs_required = required
    /\ qs_data = data
    /\ qs_score = None

InitQS ==
    \E required \in ScoreRequired, data \in ScoreRecords :
        InitQSIdle("call", required, data)
IdleQS == InitQSIdle("idle", <<>>, <<>>)

\* score = validator._calculate_quality_score(data)
QS_Score ==
    /\ qs_pc = "call"
    /\ qs_score' = calculate_quality_score(qs_required, qs_data)
    /\ qs_pc' = "done"
    /\ UNCHANGED <<qs_required, qs_data, NotQS>>

----------------------------------------------------------------------------
(* monitoring/alerts.py: AlertManager *)

\* Rates, scores and utilizations are counted in thousandths (0.05 is 50),
\* latencies in seconds.
alert_thresholds ==
    [error_rate |-> 50, latency |-> 300, data_quality |-> 800,
     resource_utilization |-> [cpu |-> 800, memory |-> 850, disk |-> 850]]
\* resource_utilization.items(), in the order of the dict
Resources == <<"cpu", "memory", "disk">>
UtilizationKey(resource) ==
    CASE resource = "cpu" -> "cpu_utilization"
      [] resource = "memory" -> "memory_utilization"
      [] resource = "disk" -> "disk_utilization"

\* A metrics dict: the keys it has and their values. Sparse drops the keys
\* whose value is negative.
Sparse(full) == [k \in {x \in DOMAIN full : full[x] >= 0} |-> full[k]]
\* cpu, memory and disk utilization of the snapshots the model draws
ResourceLevels == {<<-1, 850, -1>>, <<801, 500, -1>>, <<800, 851, 851>>, <<999, 999, 999>>}
\* latency and quality score of the snapshots: both at their thresholds, or
\* both beyond them
Timeliness == {<<300, 800>>, <<301, 799>>}
RateSnapshots ==
    {Sparse([error_rate |-> er, latency |-> lq[1], quality_score |-> lq[2],
             cpu_utilization |-> res[1], memory_utilization |-> res[2],
             disk_utilization |-> res[3]]) :
        er \in {-1, 50, 60}, lq \in Timeliness, res \in ResourceLevels}
\* the counters of a source, as MetricsCollector.get_metrics returns them
\* (without its latency list)
CounterSnapshot == [error_count |-> 6, total_records |-> 100]
Snapshots == RateSnapshots \cup {CounterSnapshot}

\* self.config: notifications off, on with an SMTP server, on without one
AMConfigs ==
    {[enable_notifications |-> FALSE, smtp_config |-> FALSE],
     [enable_notifications |-> TRUE, smtp_config |-> TRUE],
     [enable_notifications |-> TRUE, smtp_config |-> FALSE]}

\* metrics.get(key, default)
Get(m, key, default) == IF key \in DOMAIN m THEN m[key] ELSE default

\* the comparisons of check_alerts
Exceeds_OrEquals(value, threshold) == value >= threshold
Exceeds(value, threshold) == value > threshold
Below(value, threshold) == value < threshold

\* the level of an error-rate alert and of the other alerts
ErrorRateLevel_Warning == "WARNING"
ErrorRateLevel == "ERROR"
OtherLevel == "WARNING"

Alert(level, metric, value, threshold) ==
    [level |-> level, metric |-> metric, value |-> value, threshold |-> threshold]

RECURSIVE ResourceAlerts(_, _)
ResourceAlerts(m, i) ==
    IF i > Len(Resources) THEN <<>>
    ELSE LET key == UtilizationKey(Resources[i])
             threshold == alert_thresholds.resource_utilization[Resources[i]]
         IN (IF Exceeds(Get(m, key, 0), threshold)
             THEN <<Alert(OtherLevel, key, m[key], threshold)>>
             ELSE <<>>)
            \o ResourceAlerts(m, i + 1)

\* the list `alerts` of check_alerts before the alerts are processed
check_alerts(m) ==
    (IF Exceeds(Get(m, "error_rate", 0), alert_thresholds.error_rate)
     THEN <<Alert(ErrorRateLevel, "error_rate", m["error_rate"],
                  alert_thresholds.error_rate)>>
     ELSE <<>>)
    \o (IF Exceeds(Get(m, "latency", 0), alert_thresholds.latency)
        THEN <<Alert(OtherLevel, "latency", m["latency"], alert_thresholds.latency)>>
        ELSE <<>>)
    \o (IF Below(Get(m, "quality_score", 1000), alert_thresholds.data_quality)
        THEN <<Alert(OtherLevel, "quality_score", m["quality_score"],
                     alert_thresholds.data_quality)>>
        ELSE <<>>)
    \o ResourceAlerts(m, 1)

\* _process_alert: alert['timestamp'] = datetime.utcnow().isoformat()
Stamp(alerts, now) ==
    [i \in 1..Len(alerts) |->
        [level |-> alerts[i].level, metric |-> alerts[i].metric,
         value |-> alerts[i].value, threshold |-> alerts[i].threshold,
         timestamp |-> now]]

\* The SMTP server of smtp_config accepts every message, refuses every
\* one, or refuses the first message of each check and accepts the others.
SmtpBehaviours == {"up", "down", "first_fails"}
\* what connecting, logging in and send_message do for the k-th alert of a
\* check
SendOutcome(smtp, k) ==
    CASE smtp = "up" -> "ok"
      [] smtp = "down" -> "SMTPException"
      [] OTHER -> IF k = 1 THEN "SMTPException" ELSE "ok"

\* _send_notification: `except Exception as e` around the dispatch
SendFailureCaught_Never(e) == FALSE
SendFailureCaught(e) == ExceptException(e)

\* the state the loop `for alert in alerts: self._process_alert(alert)` works on
Processing(history, sent, failed, exc) ==
    [history |-> history, sent |-> sent, failed |-> failed, exc |-> exc]

\* _process_alert: the alert is appended to the history; when notifications
\* are enabled _send_notification runs, which returns at once without
\* smtp_config, and otherwise sends the mail and logs a failure to send
process_alert(config, smtp, alert, k, st) ==
    LET history == Append(st.history, alert)
        out == SendOutcome(smtp, k)
    IN  IF ~config.enable_notifications \/ ~config.smtp_config
        THEN Processing(history, st.sent, st.failed, "none")
        ELSE IF out = "ok"
             THEN Processing(history, Append(st.sent, alert), st.failed, "none")
             ELSE IF SendFailureCaught(out)
                  THEN Processing(history, st.sent, Append(st.failed, alert), "none")
                  ELSE Processing(history, st.sent, st.failed, out)

\* the loop over the alerts of one check; an exception ends it
process_alerts(config, smtp, alerts, st0) ==
    LET F[i \in 0..Len(alerts)] ==
            IF i = 0 THEN st0
            ELSE IF F[i - 1].exc # "none" THEN F[i - 1]
                 ELSE process_alert(config, smtp, alerts[i], i, F[i - 1])
    IN  F[Len(alerts)]

InitAMIdle(pc, config, smtp) ==
    /\ am_pc = pc
    /\ am_config = config
    /\ am_smtp = smtp
    /\ am_n = 0
    /\ am_metrics = <<>>
    /\ am_returned = <<>>
    /\ alert_history = <<>>
    /\ am_sent = <<>>
    /\ am_failed = <<>>
    /\ am_exc = "none"
    /\ am_queried = FALSE
    /\ am_filtered = <<>>

\* without notifications or without smtp_config no server is contacted
InitAM ==
    \E config \in AMConfigs, smtp \in SmtpBehaviours :
        /\ (~config.enable_notifications \/ ~config.smtp_config) => smtp = "up"
        /\ InitAMIdle("ready", config, smtp)
IdleAM == InitAMIdle("idle", <<>>, "up")

\* alerts = alert_manager.check_alerts(metrics)
AM_CheckAlerts ==
    /\ am_pc = "ready"
    /\ am_n < MaxChecks
    /\ \E m \in Snapshots :
         LET alerts == Stamp(check_alerts(m), am_n + 1)
             st == process_alerts(am_config, am_smtp, alerts,
                                  Processing(alert_history, am_sent, am_failed, "none"))
         IN /\ am_metrics' = m
            /\ am_returned' = IF st.exc = "none" THEN alerts ELSE <<>>
            /\ alert_history' = st.history
            /\ am_sent' = st.sent
            /\ am_failed' = st.failed
            /\ am_exc' = st.exc
    /\ am_n' = am_n + 1
    /\ am_queried' = FALSE
    /\ am_filtered' = <<>>
    /\ UNCHANGED <<am_pc, am_config, am_smtp, NotAM>>

\* The arguments of get_alert_history: an optional argument is <<>> when it
\* is None and <<x>> otherwise. The times are those of the checks, as the
\* timestamps are; the levels asked for include one no alert has.
QueryTimes == {<<>>} \cup {<<t>> : t \in 1..MaxChecks}
QueryLevels == {<<>>, <<"ERROR">>, <<"WARNING">>, <<"INFO">>}
Queries == [start_time : QueryTimes, end_time : QueryTimes, level : QueryLevels]

\* datetime.fromisoformat(alert['timestamp']) >= start_time
NotBefore_Strict(timestamp, start_time) == timestamp > start_time
NotBefore(timestamp, start_time) == timestamp >= start_time
\* datetime.fromisoformat(alert['timestamp']) <= end_time
NotAfter(timestamp, end_time) == timestamp <= end_time

\* the three filters of get_alert_history, one after the other
get_alert_history(history, start_time, end_time, level) ==
    LET filtered1 == IF start_time # <<>>
                     THEN SelectSeq(history,
                              LAMBDA alert : NotBefore(alert.timestamp, start_time[1]))
                     ELSE history
        filtered2 == IF end_time # <<>>
                     THEN SelectSeq(filtered1,
                              LAMBDA alert : NotAfter(alert.timestamp, end_time[1]))
                     ELSE filtered1
    IN  IF level # <<>>
        THEN SelectSeq(filtered2, LAMBDA alert : alert.level = level[1])
        ELSE filtered2

\* alert_manager.get_alert_history(start_time, end_time, level), for every
\* query at once
AM_Query ==
    /\ am_pc = "ready"
    /\ ~am_queried
    /\ am_queried' = TRUE
    /\ am_filtered' = [q \in Queries |->
                          get_alert_history(alert_history, q.start_time, q.end_time, q.level)]
    /\ UNCHANGED <<am_pc, am_config, am_smtp, am_n, am_metrics, am_returned,
                   alert_history, am_sent, am_failed, am_exc, NotAM>>

----------------------------------------------------------------------------
(* utils/monitoring.py: MetricsCollector *)

\* self.metrics[source]['latency'][-100:]
LatencyWindow == 100

\* records_processed and errors of the updates the model draws
CountInputs == {<<0, 0>>, <<0, 1>>, <<100, 5>>, <<100, 6>>}
\* The latency samples of a source: the first one, then equal ones, or ones
\* that alternate between two values a second apart.
LatencySeries ==
    {[first |-> a, rest |-> b, alt |-> 0] : a \in {1, 3, 103}, b \in {1, 3}}
        \cup {[first |-> 103, rest |-> 1, alt |-> 1]}
Sample(series, k) ==
    IF k = 1 THEN series.first ELSE series.rest + series.alt * (k % 2)

\* seq[-n:]
LastN(seq, n) ==
    IF Len(seq) <= n THEN seq ELSE SubSeq(seq, Len(seq) - n + 1, Len(seq))

\* lines 31-33: the sample is appended and the last 100 samples are kept
AppendLatency_KeepAll(window, latency) == Append(window, latency)
AppendLatency(window, latency) == LastN(Append(window, latency), LatencyWindow)

\* The sources that report to the collector, and one that never does.
Sources(pc) == IF pc = "shared" THEN {"source_1", "source_2"} ELSE {"source_1"}
UnknownSource == "source_9"
SampleLimit(pc) == IF pc = "shared" THEN MaxShared ELSE MaxSamples
NoCall == [op |-> "none", source |-> "none"]

\* self.metrics[source]: the entry a call on source reads and writes
Touches_Any(source, target) == TRUE
Touches(source, target) == source = target

\* the entry of another source: its counters, its window, and the log records
\* its last update wrote
RestEntry(m, window) ==
    [total_records |-> m.total_records, error_count |-> m.error_count,
     latency |-> window, log |-> collector_check_alerts(m, window)]
\* lines 18-24 and 63-68: the entry as it is created and as reset leaves it
ZeroEntry == [total_records |-> 0, error_count |-> 0, latency |-> <<>>, log |-> <<>>]
EntryOrNew(rest, source) == IF source \in DOMAIN rest THEN rest[source] ELSE ZeroEntry

InitMCIdle(pc, series) ==
    /\ mc_pc = pc
    /\ mc_series = series
    /\ mc_metrics = NoMetrics
    /\ mc_latency = <<>>
    /\ mc_seen = 0
    /\ mc_updates = 0
    /\ mc_log = <<>>
    /\ mc_prev = <<>>
    /\ mc_rest = <<>>
    /\ mc_call = NoCall

InitMC == \E series \in LatencySeries : InitMCIdle("ready", series)
InitMCShared == InitMCIdle("shared", [first |-> 3, rest |-> 1, alt |-> 0])
IdleMC == InitMCIdle("idle", <<>>)

\* collector.record_ingestion_metrics(source, {'records_processed': ...,
\* 'errors': ..., 'latency': ...}), the latency key present or not
MC_Record ==
    /\ mc_pc # "idle"
    /\ \E source \in Sources(mc_pc), counts \in CountInputs, timed \in BOOLEAN :
         /\ counts # <<0, 0>> => mc_updates < MaxUpdates
         /\ mc_updates' = IF counts # <<0, 0>> THEN mc_updates + 1 ELSE mc_updates
         /\ mc_call' = [op |-> "record", source |-> source]
         /\ IF Touches(source, "source_1")
            THEN /\ timed => mc_seen < SampleLimit(mc_pc)
                 /\ LET m == record_ingestion_metrics(mc_metrics, counts[1], counts[2])
                        window == IF timed
                                  THEN AppendLatency(mc_latency, Sample(mc_series, mc_seen + 1))
                                  ELSE mc_latency
                    IN /\ mc_metrics' = m
                       /\ mc_latency' = window
                       /\ mc_log' = collector_check_alerts(m, window)
                 /\ mc_seen' = IF timed THEN mc_seen + 1 ELSE mc_seen
                 /\ mc_prev' = mc_log
            ELSE UNCHANGED <<mc_metrics, mc_latency, mc_log, mc_seen, mc_prev>>
         /\ \E others \in {{t \in Sources(mc_pc) \ {"source_1"} : Touches(source, t)}} :
              /\ \A t \in others : timed => Len(EntryOrNew(mc_rest, t).latency) < MaxShared
              /\ mc_rest' =
                   [t \in DOMAIN mc_rest \cup others |->
                      IF t \in others
                      THEN LET cur == EntryOrNew(mc_rest, t)
                               m == record_ingestion_metrics(cur, counts[1], counts[2])
                               window ==
                                   IF timed
                                   THEN AppendLatency(cur.latency,
                                            Sample(mc_series, Len(cur.latency) + 1))
                                   ELSE cur.latency
                           IN RestEntry(m, window)
                      ELSE mc_rest[t]]
    /\ UNCHANGED <<mc_pc, mc_series, NotMC>>

\* collector.reset_metrics(source), for a source that reports or one the
\* collector has never seen
MC_Reset ==
    /\ mc_pc = "shared"
    /\ \E source \in Sources(mc_pc) \cup {UnknownSource} :
         /\ mc_call' = [op |-> "reset", source |-> source]
         /\ IF Touches(source, "source_1") /\ mc_metrics # NoMetrics
            THEN /\ mc_metrics' = NewMetrics
                 /\ mc_latency' = <<>>
                 /\ mc_seen' = 0
            ELSE UNCHANGED <<mc_metrics, mc_latency, mc_seen>>
         /\ mc_rest' = [t \in DOMAIN mc_rest |->
                           IF Touches(source, t) THEN ZeroEntry ELSE mc_rest[t]]
    /\ UNCHANGED <<mc_pc, mc_series, mc_updates, mc_log, mc_prev, NotMC>>

----------------------------------------------------------------------------
(* src/monitoring/alerts.py: the AlertManager that keeps its alerts in a list *)

\* Alert level (info, warning, error)
AlertLevels == {"info", "warning", "error"}
AlertSources == {"source_1", "source_2"}

\* the dict create_alert builds; the timestamp is the number of the call
NewAlert(source, level, message, now) ==
    [source |-> source, level |-> level, message |-> message, timestamp |-> now]

\* `if level:` is false for None and for the empty string
Truthy(level) == level \notin {None, ""}

\* get_alerts: [a for a in self.alerts if a['level'] == level], or self.alerts
get_alerts_All(stored, level) == stored
get_alerts(stored, level) ==
    IF Truthy(level)
    THEN SelectSeq(stored, LAMBDA a : a.level = level)
    ELSE stored

IACall(op, level) == [op |-> op, level |-> level]

InitIAIdle(pc) ==
    /\ ia_pc = pc
    /\ ia_alerts = <<>>
    /\ ia_n = 0
    /\ ia_call = IACall("none", None)
    /\ ia_ret = None
    /\ ia_prev = <<>>
    /\ ia_since = 0

InitIA == InitIAIdle("ready")
IdleIA == InitIAIdle("idle")

\* create_alert(source, level, message): the alert is appended and returned
IA_Create ==
    /\ ia_pc = "ready"
    /\ ia_n < MaxAlerts
    /\ \E source \in AlertSources, level \in AlertLevels :
         LET alert == NewAlert(source, level, "message", ia_n + 1)
         IN /\ ia_alerts' = Append(ia_alerts, alert)
            /\ ia_ret' = alert
            /\ ia_call' = IACall("create", level)
    /\ ia_n' = ia_n + 1
    /\ ia_prev' = ia_alerts
    /\ ia_since' = ia_since + 1
    /\ UNCHANGED <<ia_pc, NotIA>>

\* get_alerts(level), level None when the argument is left out
IA_Get ==
    /\ ia_pc = "ready"
    /\ \E level \in AlertLevels \cup {None} :
         /\ ia_ret' = get_alerts(ia_alerts, level)
         /\ ia_call' = IACall("get", level)
    /\ ia_prev' = ia_alerts
    /\ UNCHANGED <<ia_pc, ia_alerts, ia_n, ia_since, NotIA>>

\* clear_alerts(): self.alerts = []
IA_Clear ==
    /\ ia_pc = "ready"
    /\ ia_alerts' = <<>>
    /\ ia_ret' = None
    /\ ia_call' = IACall("clear", None)
    /\ ia_prev' = ia_alerts
    /\ ia_since' = 0
    /\ UNCHANGED <<ia_pc, ia_n, NotIA>>

----------------------------------------------------------------------------
(* utils/db.py and pipelines/source_1/load.py: loads of one record each that
   run concurrently on the pool of DatabaseManager *)

\* a connection of a pool, and no connection
Conn(p, c) == <<p, c>>
NoConn == <<0, 0>>

\* a load before its first step
NewLoad == [pc |-> "start", tx |-> NoConn, cur |-> NoConn, stmt |-> "none", ran |-> {}]

\* the connections of pool p that are acquired
Held(p) ==
    {conn \in ({cx_load[l].tx : l \in DOMAIN cx_load}
                 \cup {cx_load[l].cur : l \in DOMAIN cx_load}) : conn[1] = p}
\* pool.acquire() returns a connection of the pool nobody holds, and waits
\* while there is none
Free(p) == {Conn(p, c) : c \in 1..PoolMaxSize} \ Held(p)

\* async with self._pool.acquire() as conn, in execute: a connection of its
\* own for the statement
StatementConn(load, conn) == conn

IdleCX ==
    /\ cx_ref = 0
    /\ cx_created = 0
    /\ cx_load = <<>>

InitCX ==
    /\ cx_ref = 0
    /\ cx_created = 0
    /\ \E n \in 1..NumLoads : cx_load = [l \in 1..n |-> NewLoad]

\* transaction(): `if not self._pool: await self.initialize()`, and in
\* initialize `if cls._pool is None:` before create_pool is awaited
CX_Check ==
    \E l \in DOMAIN cx_load :
       /\ cx_load[l].pc = "start"
       /\ cx_load' = [cx_load EXCEPT ![l].pc = IF cx_ref = 0 THEN "creating" ELSE "begin"]
       /\ UNCHANGED <<cx_ref, cx_created, NotCX>>

\* cls._pool = await asyncpg.create_pool(...): the pool that was awaited is
\* assigned when it is there
CX_CreatePool ==
    \E l \in DOMAIN cx_load :
       /\ cx_load[l].pc = "creating"
       /\ cx_created' = cx_created + 1
       /\ cx_ref' = cx_created + 1
       /\ cx_load' = [cx_load EXCEPT ![l].pc = "begin"]
       /\ UNCHANGED NotCX

\* async with self._pool.acquire() as conn: async with conn.transaction()
CX_Begin ==
    \E l \in DOMAIN cx_load :
       /\ cx_load[l].pc = "begin"
       /\ \E conn \in Free(cx_ref) :
            cx_load' = [cx_load EXCEPT ![l].pc = "acquire", ![l].tx = conn,
                                       ![l].stmt = "ensure"]
       /\ UNCHANGED <<cx_ref, cx_created, NotCX>>

\* _ensure_partition and _insert_record: db.execute acquires a connection
CX_Acquire ==
    \E l \in DOMAIN cx_load :
       /\ cx_load[l].pc = "acquire"
       /\ \E conn \in Free(cx_ref) :
            cx_load' = [cx_load EXCEPT ![l].pc = "execute", ![l].cur = conn]
       /\ UNCHANGED <<cx_ref, cx_created, NotCX>>

\* return await conn.execute(...): the statement runs on the connection
\* execute acquired, which goes back to the pool; after the insert the
\* transaction scope is left
CX_Execute ==
    \E l \in DOMAIN cx_load :
       /\ cx_load[l].pc = "execute"
       /\ cx_load' = [cx_load EXCEPT
             ![l].ran = @ \cup {[stmt |-> cx_load[l].stmt,
                                 conn |-> StatementConn(cx_load[l], cx_load[l].cur)]},
             ![l].cur = NoConn,
             ![l].stmt = IF @ = "ensure" THEN "insert" ELSE "none",
             ![l].pc = IF cx_load[l].stmt = "ensure" THEN "acquire" ELSE "commit"]
       /\ UNCHANGED <<cx_ref, cx_created, NotCX>>

\* the scopes of transaction() are left: COMMIT, and the connection of the
\* transaction goes back to its pool
CX_Commit ==
    \E l \in DOMAIN cx_load :
       /\ cx_load[l].pc = "commit"
       /\ cx_load' = [cx_load EXCEPT ![l].pc = "returned", ![l].tx = NoConn]
       /\ UNCHANGED <<cx_ref, cx_created, NotCX>>

----------------------------------------------------------------------------
(* Specification of the loaders: one loader runs, on one input *)

vars == <<poolVars, tlVars, bzVars, s1Vars, exVars, sxVars, runVars, dvVars, qsVars, monVars>>

InitLoad ==
    /\ IdlePool
    /\ IdleIA /\ IdleCX
    /\ \/ InitTL /\ IdleBZ /\ IdleS1
       \/ IdleTL /\ InitBZ /\ IdleS1
       \/ IdleTL /\ IdleBZ /\ InitS1
    /\ IdleEX /\ IdleSX /\ IdleRun /\ IdleDV /\ IdleQS /\ IdleAM /\ IdleMC

NextLoad ==
    \/ TL_Initialize
    \/ TL_NextBatch
    \/ TL_Insert
    \/ TL_BatchDone
    \/ TL_Close
    \/ BZ_Record
    \/ BZ_Commit
    \/ S1_Begin
    \/ S1_Ensure
    \/ S1_Insert
    \/ S1_Commit
    \/ S1_TxLost

SpecLoad == InitLoad /\ [][NextLoad]_vars

(* Specification of two loads of one process: the template loader and a *)
(* second load, each on its own task *)
InitPool ==
    /\ pool = None
    /\ peer_pc = "init"
    /\ InitTL /\ tl_n \in 1..SmallLen
    /\ IdleBZ /\ IdleS1
    /\ IdleEX /\ IdleSX /\ IdleRun /\ IdleDV /\ IdleQS /\ IdleAM /\ IdleMC
    /\ IdleIA /\ IdleCX

NextPool ==
    \/ TL_Initialize
    \/ TL_NextBatch
    \/ TL_Insert
    \/ TL_BatchDone
    \/ TL_Close
    \/ Peer_Initialize
    \/ Peer_Insert
    \/ Peer_Close

SpecPool == InitPool /\ [][NextPool]_vars

----------------------------------------------------------------------------
(* Specification of the extractors: one extraction runs *)

InitExtract ==
    /\ IdlePool
    /\ IdleIA /\ IdleCX
    /\ IdleTL /\ IdleBZ /\ IdleS1
    /\ \/ InitEX /\ IdleSX
       \/ IdleEX /\ InitSX
    /\ IdleRun /\ IdleDV /\ IdleQS /\ IdleAM /\ IdleMC

NextExtract ==
    \/ EX_Loop
    \/ EX_Fetch
    \/ SX_Request

SpecExtract == InitExtract /\ [][NextExtract]_vars

(* Specification of the backoff: the template extractor fetches one page, *)
(* with more attempts than the extractions above *)
BackoffConfigs ==
    [rate_limit : {100}, retry_attempts : {MaxBackoffAttempts}, retry_delay : RetryDelays]

InitBackoff ==
    /\ IdlePool
    /\ IdleIA /\ IdleCX
    /\ IdleTL /\ IdleBZ /\ IdleS1
    /\ \E cfg \in BackoffConfigs : InitEXIdle("loop", cfg, StartDate + 1)
    /\ IdleSX
    /\ IdleRun /\ IdleDV /\ IdleQS /\ IdleAM /\ IdleMC

NextBackoff ==
    \/ EX_Loop
    \/ EX_Fetch

SpecBackoff == InitBackoff /\ [][NextBackoff]_vars

----------------------------------------------------------------------------
(* Specification of a run: run_pipeline runs once, for source_1 *)

InitRunPipeline ==
    /\ IdlePool
    /\ IdleIA /\ IdleCX
    /\ IdleTL /\ IdleBZ /\ IdleS1 /\ IdleEX /\ IdleSX /\ IdleDV /\ IdleQS /\ IdleAM /\ IdleMC
    /\ InitRun

NextRun ==
    \/ Run_Start
    \/ SX_Request
    \/ Run_Transform
    \/ Run_ExtractFailed
    \/ S1_Begin
    \/ S1_Ensure
    \/ S1_Insert
    \/ S1_Commit
    \/ S1_TxLost
    \/ Run_Report
    \/ Run_LoadFailed

SpecRun == InitRunPipeline /\ [][NextRun]_vars

----------------------------------------------------------------------------
(* Specification of the validator: validate is called once *)

InitValidate ==
    /\ IdlePool
    /\ IdleIA /\ IdleCX
    /\ IdleTL /\ IdleBZ /\ IdleS1 /\ IdleEX /\ IdleSX /\ IdleRun
    /\ \/ InitDV /\ IdleQS
       \/ IdleDV /\ InitQS
    /\ IdleAM /\ IdleMC

NextValidate ==
    \/ DV_Validate
    \/ QS_Score

SpecValidate == InitValidate /\ [][NextValidate]_vars

----------------------------------------------------------------------------
(* Specification of the monitoring: an AlertManager checks snapshots, or a *)
(* MetricsCollector records the updates of one source                      *)

InitMonitor ==
    /\ IdlePool
    /\ IdleIA /\ IdleCX
    /\ IdleTL /\ IdleBZ /\ IdleS1 /\ IdleEX /\ IdleSX /\ IdleRun
    /\ IdleDV /\ IdleQS
    /\ \/ InitAM /\ IdleMC
       \/ IdleAM /\ InitMC

NextMonitor ==
    \/ AM_CheckAlerts
    \/ AM_Query
    \/ MC_Record

SpecMonitor == InitMonitor /\ [][NextMonitor]_vars

(* Specification of the collector shared by two sources *)
InitCollector ==
    /\ IdlePool
    /\ IdleIA /\ IdleCX
    /\ IdleTL /\ IdleBZ /\ IdleS1 /\ IdleEX /\ IdleSX /\ IdleRun
    /\ IdleDV /\ IdleQS
    /\ IdleAM /\ InitMCShared

NextCollector ==
    \/ MC_Record
    \/ MC_Reset

SpecCollector == InitCollector /\ [][NextCollector]_vars

(* Specification of the in-memory AlertManager: alerts are created, read
   and cleared in any order *)
InitAlerts ==
    /\ IdlePool
    /\ IdleTL /\ IdleBZ /\ IdleS1 /\ IdleEX /\ IdleSX /\ IdleRun
    /\ IdleDV /\ IdleQS
    /\ IdleAM /\ IdleMC
    /\ InitIA /\ IdleCX

NextAlerts ==
    \/ IA_Create
    \/ IA_Get
    \/ IA_Clear

SpecAlerts == InitAlerts /\ [][NextAlerts]_vars

(* Specification of the shared pool: up to NumLoads source_1 loads run
   concurrently, each step of a load between two awaits *)
InitShared ==
    /\ IdlePool
    /\ IdleTL /\ IdleBZ /\ IdleS1 /\ IdleEX /\ IdleSX /\ IdleRun
    /\ IdleDV /\ IdleQS
    /\ IdleAM /\ IdleMC /\ IdleIA
    /\ InitCX

NextShared ==
    \/ CX_Check
    \/ CX_CreatePool
    \/ CX_Begin
    \/ CX_Acquire
    \/ CX_Execute
    \/ CX_Commit

SpecShared == InitShared /\ [][NextShared]_vars

----------------------------------------------------------------------------
(* Properties of the loaders, checked under SpecLoad *)

\* the batch _load_batch has just returned: data[tl_i - batch_size : tl_i]
TLBatchReturned == tl_pc = "loop" /\ tl_i > 0
TLLastBatchLen == BatchLen(tl_n, tl_i - batch_size)

CountsAddUp(r) == r.successful_records + r.failed_records = r.total_records

\* C1: every result a load returns has successful_records + failed_records =
\* total_records (= the length of the input), whatever inserts failed: the
\* result of each batch (against the length of the batch), the run-level
\* result of load() and the result of insert_bronze_data.
C1_CountsAddUp ==
    /\ TLBatchReturned =>
          tl_batch.successful_records + tl_batch.failed_records = TLLastBatchLen
    /\ tl_pc = "returned" => CountsAddUp(tl_results) /\ tl_results.total_records = tl_n
    /\ bz_pc = "returned" => CountsAddUp(bz_results) /\ bz_results.total_records = bz_n

\* a load over two batches returned with failures and successes in it
C1_Witness ==
    /\ tl_pc = "returned"
    /\ tl_n > batch_size
    /\ tl_results.failed_records > 1
    /\ tl_results.successful_records > batch_size - 2

\* C2: an insert that raises is caught and recorded in errors, the remaining
\* records are still attempted and the load does not raise: no exception of a
\* record statement is ever in flight in load(); when a batch (template) or
\* the record loop (source_1, insert_bronze_data) is over every record of it
\* was attempted and each failure has its entry in errors.
C2_RecordFailuresIsolated ==
    /\ tl_exc \notin {"insert_error"}
    /\ s1_exc \notin {"db_error", "insert_error", "fromisoformat"}
    /\ TLBatchReturned =>
          /\ tl_attempts = Min(tl_i, tl_n)
          /\ Len(tl_batch.errors) = tl_batch.failed_records
          /\ tl_batch.failed_records + tl_batch.successful_records = TLLastBatchLen
    /\ tl_pc = "returned" =>
          /\ tl_attempts = tl_n
          /\ Len(tl_results.errors) = tl_n - tl_inserted
    /\ s1_pc = "commit" =>
          /\ s1_k = Len(s1_data)
          /\ Len(s1_errors) = Len(s1_data) - Len(rows)
    /\ bz_pc = "returned" =>
          /\ bz_k = bz_n
          /\ Len(bz_results.errors) = bz_n - bz_committed

\* the insert of the first record failed, every other record of both batches
\* was inserted and the load returned
C2_Witness ==
    /\ tl_pc = "returned"
    /\ tl_n > batch_size
    /\ tl_results.errors = <<[record_id |-> "r1", error |-> "insert_error"]>>
    /\ tl_inserted = tl_n - 1

\* C5 (as claimed): once the transaction of a batch has failed (its connection
\* is lost while the record loop runs) the remaining records of the batch are
\* aborted: the load returns one error for the batch, and neither its count
\* nor the table holds a record that was not yet started when the
\* transaction failed.
C5_TransactionFailureAbortsBatch ==
    (s1_pc = "returned" /\ s1_lostAt >= 0) =>
        /\ s1_result.errors = <<TransactionError("db_error")>>
        /\ s1_result.records_processed <= s1_lostAt
        /\ Len(rows) <= s1_lostAt

----------------------------------------------------------------------------
(* Properties of the extractors, checked under SpecExtract *)

IsRequest(log, i) == log[i].ev = "request"
RequestIdx(log) == {i \in 1..Len(log) : IsRequest(log, i)}
\* the requests of a log, in order
RequestsOf(log) == SelectSeq(log, LAMBDA e : e.ev = "request")
\* i and j are the places of two consecutive requests
Consecutive(log, i, j) ==
    /\ i \in RequestIdx(log) /\ j \in RequestIdx(log) /\ i < j
    /\ \A k \in (i + 1)..(j - 1) : ~IsRequest(log, k)
\* milliseconds slept strictly between places i and j
RECURSIVE SleptBetween(_, _, _)
SleptBetween(log, i, j) ==
    IF i + 1 >= j THEN 0 ELSE log[i + 1].ms + SleptBetween(log, i + 1, j)

\* C6 (amended): on ClientErrors _fetch_page requests the same page again,
\* making at most retry_attempts requests for it (the first one and
\* retry_attempts - 1 retries); when the last of them fails the error
\* propagates at once, the extraction is over and fetch_data returns nothing,
\* the pages fetched before included.
C6_RetriesSamePageUpToAttempts ==
    /\ \A i \in RequestIdx(ex_log) :
         LET r == ex_log[i]
         IN /\ r.attempt < ex_cfg.retry_attempts
            /\ r.attempt > 0 =>
                  /\ i > 2
                  /\ ex_log[i - 2].out \in ClientErrors
                  /\ ex_log[i - 2] = RequestEv(r.page, r.attempt - 1, ex_log[i - 2].out, 0)
            /\ (r.out \in ClientErrors /\ r.attempt = ex_cfg.retry_attempts - 1) =>
                  /\ i = Len(ex_log)
                  /\ ex_pc = "raised"
                  /\ ex_exc = r.out
    /\ ex_pc = "raised" => ex_ret = NoReturn

\* the third of three attempts failed, after an earlier page had been fetched
C6_Witness ==
    /\ ex_pc = "raised"
    /\ ex_exc = "ClientConnectionError"
    /\ ex_cfg.retry_attempts = 3
    /\ Len(ex_all) > 0
    /\ ex_log[Len(ex_log)].attempt = 2

\* C6 (as claimed): the extractor makes up to retryAttempts retries, so the
\* attempt whose failure ends the extraction is retry number retryAttempts
C6_RetryAttemptsRetries ==
    (ex_pc = "raised" /\ ex_exc = "ClientConnectionError") =>
        ex_log[Len(ex_log)].attempt = ex_cfg.retry_attempts

\* the failures the claims call transient: the transport failed, or the
\* source answered with an error status
TransportErrors == {"ClientConnectionError", "ClientResponseError"}

\* C7: a request that fails with an error that is no transport error (a
\* malformed response) ends the fetch at once: it is the last thing the
\* extraction does (no further request, no backoff sleep), the error leaves
\* fetch_data and nothing is returned
C7_NonTransientFailsAtOnce ==
    \A i \in RequestIdx(ex_log) :
        (ex_log[i].out # "ok" /\ ex_log[i].out \notin TransportErrors) =>
            /\ i = Len(ex_log)
            /\ ex_pc = "raised"
            /\ ex_exc = ex_log[i].out
            /\ ex_ret = NoReturn

\* C8 (as claimed): any two consecutive requests of an extraction, first
\* attempts and retries alike, are at least 60/rate_limit seconds apart
C8_EveryRequestRateLimited ==
    \A i, j \in 1..Len(ex_log) :
        Consecutive(ex_log, i, j) => SleptBetween(ex_log, i, j) >= RateLimitDelay(ex_cfg)

\* consecutive items of a result are in page order, and in the order of the page
InPageOrder(data) ==
    \A i \in 1..(Len(data) - 1) :
        \/ data[i].data[1] < data[i + 1].data[1]
        \/ data[i].data[1] = data[i + 1].data[1] /\ data[i].data[2] + 1 = data[i + 1].data[2]

RECURSIVE SumN(_)
SumN(reqs) == IF reqs = <<>> THEN 0 ELSE Head(reqs).n + SumN(Tail(reqs))

\* C9 (amended): the source_1 extraction stops at the first page that returns
\* zero items: it requests the pages 1, 2, ... in order, every page but the
\* last returned items and the last returned none; the result is the items of
\* the pages concatenated in page order; a delay lies between every two
\* consecutive page requests. (For pages of count, count and 0 items: three
\* requests and 2 x count records.) The template extraction does not stop at
\* an empty page: it requests every date of its range.
C9_StopsAtFirstEmptyPage ==
    /\ sx_pc = "returned" =>
          LET reqs == RequestsOf(sx_log)
          IN /\ \A i \in 1..Len(reqs) :
                    /\ reqs[i].page = i
                    /\ reqs[i].out = "ok"
                    /\ (reqs[i].n = 0) <=> (i = Len(reqs))
             /\ sx_ret.returned
             /\ Len(sx_ret.data) = SumN(reqs)
             /\ InPageOrder(sx_ret.data)
             /\ \A i, j \in 1..Len(sx_log) :
                    Consecutive(sx_log, i, j) => SleptBetween(sx_log, i, j) >= PageDelay
    /\ ex_pc = "returned" =>
          LET reqs == SelectSeq(ex_log, LAMBDA e : e.ev = "request" /\ e.out = "ok")
          IN /\ \A i \in 1..Len(reqs) : reqs[i].page = StartDate + (i - 1) * Day
             /\ StartDate + Len(reqs) * Day >= ex_end
             /\ Len(ex_ret.data) = SumN(reqs)

\* pages of MaxCount, MaxCount and 0 items: three requests, 2 x MaxCount records
C9_Witness ==
    /\ sx_pc = "returned"
    /\ Len(RequestsOf(sx_log)) = 3
    /\ RequestsOf(sx_log)[1].n = MaxCount
    /\ RequestsOf(sx_log)[2].n = MaxCount
    /\ Len(sx_ret.data) = 2 * MaxCount

\* C9 (as claimed): every extraction stops at the first page that returns
\* zero items, i.e. no request follows a page of zero items
NoRequestAfterEmptyPage(log) ==
    \A i \in RequestIdx(log) :
        (log[i].out = "ok" /\ log[i].n = 0) => \A j \in RequestIdx(log) : j <= i
C9_EveryExtractionStopsAtEmptyPage ==
    /\ NoRequestAfterEmptyPage(sx_log)
    /\ NoRequestAfterEmptyPage(ex_log)

----------------------------------------------------------------------------
(* Properties of a run, checked under SpecRun *)

\* C3: the transform stage hands the loader one record per raw record, in
\* input order, and a record that fails the validation schema of the source
\* is loaded with validation_status = "invalid"
C3_ValidationNeverDropsData ==
    /\ run_pc \in {"load", "completed"} =>
          /\ Len(s1_data) = Len(run_raw)
          /\ \A i \in 1..Len(s1_data) : s1_data[i].raw_data = run_raw[i]
    /\ \A i \in 1..Len(rows) :
          ~SchemaValid(rows[i].raw_data) => rows[i].validation_status = "invalid"

\* what a failed run leaves to its caller: the value returned, the metrics
RunSummaryHolds(processed, errors) ==
    \/ /\ run_result.records_processed = processed
       /\ run_result.errors = errors
    \/ /\ metrics.total_records = processed
       /\ metrics.error_count = Len(errors)

\* C4: a run whose extraction or load raises ends Failed with the exception
\* handed to the caller, and when records had been loaded before the load
\* raised, their count and the errors so far are in the run's summary
C4_FailedRunKeepsPartialResults ==
    /\ (run_pc \in {"completed", "failed"} /\ (sx_pc = "raised" \/ s1_pc = "raised")) =>
          run_pc = "failed" /\ run_exc # "none"
    /\ (run_pc = "failed" /\ s1_pc = "raised" /\ s1_processed > 0) =>
          RunSummaryHolds(s1_processed, s1_errors)

----------------------------------------------------------------------------
(* Properties of the validator, checked under SpecValidate *)

OutOfRange(schema, data, f) ==
    \/ BelowMinimum(schema.properties[f], data[f])
    \/ AboveMaximum(schema.properties[f], data[f])

\* nothing is wrong with the record but the range of its numbers: required
\* fields present, types as the schema has them, the timestamp an ISO
\* date-time and every custom rule passing
OtherwiseValid(schema, rules, data) ==
    /\ \A i \in 1..Len(schema.required) : Present(data, schema.required[i])
    /\ \A f \in FieldSet : Present(data, f) => HasType(data[f], schema.properties[f].type)
    /\ Present(data, "timestamp") => data["timestamp"] = IsoText
    /\ \A i \in 1..Len(rules) : RuleOutcome(rules[i], data) = "passed"

\* C10: a record with a numeric field outside the schema's [minimum, maximum]
\* and nothing else wrong with it validates with is_valid = true, no errors
\* and at least one warning
C10_RangeViolationIsWarning ==
    (/\ dv_pc = "done"
     /\ OtherwiseValid(dv_schema, dv_rules, dv_data)
     /\ \E f \in FieldSet : OutOfRange(dv_schema, dv_data, f)) =>
        /\ dv_result.raised = "none"
        /\ dv_result.is_valid
        /\ dv_result.errors = <<>>
        /\ dv_result.warnings # <<>>

\* the required fields the record lacks
MissingRequired(schema, data) ==
    {schema.required[i] : i \in {j \in 1..Len(schema.required) :
                                    ~Present(data, schema.required[j])}}

\* C11: a record that lacks a required field is validated with is_valid =
\* false and with an error that names a field it lacks, whatever else the
\* record holds and whatever range the schema sets
C11_MissingRequiredIsInvalid ==
    (/\ dv_pc = "done"
     /\ dv_result.raised = "none"
     /\ MissingRequired(dv_schema, dv_data) # {}) =>
        /\ ~dv_result.is_valid
        /\ \E i \in 1..Len(dv_result.errors) :
              /\ dv_result.errors[i].kind = "required"
              /\ dv_result.errors[i].field \in MissingRequired(dv_schema, dv_data)

\* C12: in every ValidationResult validate returns, is_valid is true exactly
\* when errors is empty; warnings do not make a record invalid
C12_ValidIffNoErrors ==
    (dv_pc = "done" /\ dv_result.raised = "none") =>
        (dv_result.is_valid <=> dv_result.errors = <<>>)

\* a result whose range error was turned into a warning
C12_Witness ==
    /\ dv_pc = "done"
    /\ dv_result.raised = "none"
    /\ dv_result.is_valid
    /\ \E i \in 1..Len(dv_result.warnings) : dv_result.warnings[i].kind = "maximum"

\* the messages of the rules that reject the record, in rule order
RECURSIVE RejectionMessages(_, _, _)
RejectionMessages(rules, data, i) ==
    IF i > Len(rules) THEN <<>>
    ELSE (IF RuleOutcome(rules[i], data) = "rejected" THEN <<RuleMessage(rules[i])>>
          ELSE <<>>)
         \o RejectionMessages(rules, data, i + 1)

\* C13: when a custom rule reports failure, with a message or without, the
\* record is invalid, and the messages of the failing rules are in errors in
\* rule order
C13_FailingRuleInvalidates ==
    (/\ dv_pc = "done"
     /\ dv_result.raised = "none"
     /\ \E i \in 1..Len(dv_rules) :
           RuleOutcome(dv_rules[i], dv_data) \in {"rejected", "silent"}) =>
        /\ ~dv_result.is_valid
        /\ SelectSeq(dv_result.errors, LAMBDA e : e.kind = "custom")
              = RejectionMessages(dv_rules, dv_data, 1)

\* the penalties of a record, counted field by field
Penalty(required, data) ==
    LET RECURSIVE Sum(_)
        Sum(f) ==
            IF f = 0 THEN 0
            ELSE Sum(f - 1)
                 + (IF data[f] = Absent /\ f <= Len(required) THEN 10 ELSE 0)
                 + (IF data[f] = Null THEN 5 ELSE 0)
                 + (IF data[f] \in {EmptyText, BlankText} THEN 2 ELSE 0)
    IN  Sum(MaxFields)

SameDate(data) ==
    \A i, j \in 1..Len(data) :
        /\ data[i].source_timestamp \in IsoTimestamps
        /\ PartitionDate(data[i].source_timestamp) = PartitionDate(data[j].source_timestamp)

\* exactly one insert of the load failed, and nothing else did
OneInsertFailed ==
    /\ Len(s1_errors) = 1
    /\ s1_errors[1].scope = "record"
    /\ s1_errors[1].error = "insert_error"

\* C15: when N records of one date are loaded and exactly one insert fails,
\* the result reports N - 1 records loaded and one failed, N - 1 rows are in
\* the table, and the date has one partition, created once, whatever N is
C15_OneFailedInsertOnePartition ==
    (s1_pc = "returned" /\ SameDate(s1_data) /\ OneInsertFailed) =>
        /\ s1_result.records_processed = Len(s1_data) - 1
        /\ Len(s1_result.errors) = 1
        /\ ~s1_result.success
        /\ Len(rows) = Len(s1_data) - 1
        /\ partitions = <<PartitionDate(s1_data[1].source_timestamp)>>
        /\ partitions[1] \in Dates

\* three records of one date, with different times of day, one insert failed
C15_Witness ==
    /\ s1_pc = "returned"
    /\ Len(s1_data) = 3
    /\ SameDate(s1_data)
    /\ \E i, j \in 1..3 : s1_data[i].source_timestamp # s1_data[j].source_timestamp
    /\ OneInsertFailed
    /\ s1_result.records_processed = 2
    /\ partitions = <<"d1">>

NoDuplicates(parts) ==
    \A i, j \in 1..Len(parts) : parts[i] = parts[j] => i = j

\* _ensure_partition succeeds for a date that has its partition
EnsuresExisting ==
    /\ s1_pc = "ensure"
    /\ s1_pc' = "insert"
    /\ \E i \in 1..Len(partitions) :
          partitions[i] = PartitionDate(s1_data[s1_k + 1].source_timestamp)

\* C16: ensuring the partition of a date that has one leaves the partitions
\* as they are, and no sequence of ensure-partition calls gives a date more
\* than one partition
C16_PartitionCreationIdempotent ==
    /\ [](NoDuplicates(partitions))
    /\ [][EnsuresExisting => partitions' = partitions]_vars

\* the partition of a date was ensured a second time, without error
C16_Witness ==
    /\ s1_pc = "insert"
    /\ Len(rows) = 1
    /\ PartitionDate(rows[1].source_timestamp)
          = PartitionDate(s1_data[s1_k + 1].source_timestamp)
    /\ partitions = <<PartitionDate(rows[1].source_timestamp)>>

----------------------------------------------------------------------------
(* Properties of the monitoring, checked under SpecMonitor *)

\* the keys check_alerts reads
MetricKeys ==
    {"error_rate", "latency", "quality_score",
     "cpu_utilization", "memory_utilization", "disk_utilization"}
ThresholdOf(key) ==
    CASE key = "error_rate" -> alert_thresholds.error_rate
      [] key = "latency" -> alert_thresholds.latency
      [] key = "quality_score" -> alert_thresholds.data_quality
      [] key = "cpu_utilization" -> alert_thresholds.resource_utilization.cpu
      [] key = "memory_utilization" -> alert_thresholds.resource_utilization.memory
      [] key = "disk_utilization" -> alert_thresholds.resource_utilization.disk
\* the metric is in the snapshot and strictly beyond its threshold: below it
\* for the quality score, above it for the others
Beyond(m, key) ==
    /\ key \in DOMAIN m
    /\ IF key = "quality_score" THEN m[key] < ThresholdOf(key)
                                ELSE m[key] > ThresholdOf(key)
AlertsFor(alerts, key) == {i \in 1..Len(alerts) : alerts[i].metric = key}

\* C17 as stated: a snapshot with error_count = 6 and total_records = 100
\* makes check_alerts return exactly one alert, of level error, for the
\* metric error_rate with value 0.06
C17_CountersRaiseAlert ==
    (/\ am_n > 0
     /\ "error_count" \in DOMAIN am_metrics
     /\ am_metrics["error_count"] = 6
     /\ am_metrics["total_records"] = 100) =>
        /\ Len(am_returned) = 1
        /\ am_returned[1].level = "ERROR"
        /\ am_returned[1].metric = "error_rate"
        /\ am_returned[1].value = 60

\* C17: check_alerts returns exactly one alert for each metric of the
\* snapshot that is strictly beyond its threshold and none for a metric that
\* is absent, at its threshold or within it; a snapshot whose error_rate is
\* 0.06 gives one alert for error_rate, with level ERROR and value 0.06
C17_OneAlertPerBreach ==
    am_n > 0 =>
        /\ \A key \in MetricKeys :
              Cardinality(AlertsFor(am_returned, key))
                  = IF Beyond(am_metrics, key) THEN 1 ELSE 0
        /\ \A i \in 1..Len(am_returned) :
              /\ am_returned[i].metric \in MetricKeys
              /\ am_returned[i].value = am_metrics[am_returned[i].metric]
              /\ am_returned[i].threshold = ThresholdOf(am_returned[i].metric)
        /\ ("error_rate" \in DOMAIN am_metrics /\ am_metrics["error_rate"] = 60) =>
              \E i \in 1..Len(am_returned) :
                  /\ am_returned[i].level = "ERROR"
                  /\ am_returned[i].metric = "error_rate"
                  /\ am_returned[i].value = 60

\* an error rate of 0.06 with the latency, the quality score and the memory
\* at their thresholds and no cpu and disk figures: one alert
C17_Witness ==
    /\ am_n = 1
    /\ "latency" \in DOMAIN am_metrics
    /\ am_metrics["latency"] = alert_thresholds.latency
    /\ am_metrics["quality_score"] = alert_thresholds.data_quality
    /\ "cpu_utilization" \notin DOMAIN am_metrics
    /\ am_returned = <<[level |-> "ERROR", metric |-> "error_rate", value |-> 60,
                        threshold |-> 50, timestamp |-> 1]>>

Repeated(a, b) ==
    /\ a.metric = b.metric
    /\ a.value = b.value
    /\ a.threshold = b.threshold
    /\ b.timestamp = a.timestamp + 1

\* C19: a breach seen again on the next check is not appended to the history
\* again and is not notified again
C19_AlertsDeduplicated ==
    /\ \A i, j \in 1..Len(alert_history) :
          ~Repeated(alert_history[i], alert_history[j])
    /\ \A i, j \in 1..Len(am_sent) : ~Repeated(am_sent[i], am_sent[j])

\* the log records of an update report the metric
Reports(log, metric) == \E i \in 1..Len(log) : log[i].metric = metric
\* the samples in the latency window, and their sum, from the series
WindowLen == Min(mc_seen, LatencyWindow)
RECURSIVE SumSamples(_, _, _)
SumSamples(series, from, to) ==
    IF from > to THEN 0 ELSE Sample(series, from) + SumSamples(series, from + 1, to)
WindowSum == SumSamples(mc_series, mc_seen - WindowLen + 1, mc_seen)

\* C20: after every update of the ingestion metrics the breaches reported are
\* those of the state the update left: the error rate is reported exactly
\* when error_count / total_records of the accumulated counters exceeds 5%,
\* the latency exactly when the mean of the samples now in the window exceeds
\* 2 seconds, whatever the update before reported
C20_EvaluationStateless ==
    (mc_pc = "ready" /\ mc_metrics # NoMetrics) =>
        /\ Len(mc_latency) = WindowLen
        /\ Reports(mc_log, "error_rate") <=>
              (mc_metrics.total_records > 0
               /\ 20 * mc_metrics.error_count > mc_metrics.total_records)
        /\ Reports(mc_log, "latency") <=>
              (WindowLen > 0 /\ WindowSum > 2 * WindowLen)

\* an error-rate breach is reported by two updates in a row, the second one
\* after the window has dropped its oldest sample
C20_Witness ==
    /\ mc_pc = "ready"
    /\ mc_seen > LatencyWindow
    /\ Reports(mc_prev, "error_rate")
    /\ Reports(mc_log, "error_rate")
    /\ ~Reports(mc_log, "latency")
    /\ Reports(mc_prev, "latency")

\* the last alerts of the history, as many as the last check returned
LastOfHistory ==
    SubSeq(alert_history, Len(alert_history) - Len(am_returned) + 1, Len(alert_history))
Notifying == am_config.enable_notifications /\ am_config.smtp_config
InSeq(seq, x) == \E i \in 1..Len(seq) : seq[i] = x

\* C21: every alert of a check is timestamped and appended to the history,
\* with notifications enabled or not; alerts are dispatched only when
\* notifications are enabled; a failed dispatch leaves check_alerts without
\* an exception, and the alerts after it are recorded and dispatched as well
C21_DispatchFailureIsolated ==
    am_n > 0 =>
        /\ am_exc = "none"
        /\ Len(am_returned) <= Len(alert_history)
        /\ LastOfHistory = am_returned
        /\ \A i \in 1..Len(am_returned) : am_returned[i].timestamp = am_n
        /\ ~am_config.enable_notifications => am_sent = <<>> /\ am_failed = <<>>
        /\ Notifying =>
              /\ Len(am_sent) + Len(am_failed) = Len(alert_history)
              /\ \A i \in 1..Len(alert_history) :
                    InSeq(am_sent, alert_history[i]) \/ InSeq(am_failed, alert_history[i])
              /\ \A i \in 1..Len(am_returned) :
                    InSeq(am_sent, am_returned[i]) <=> SendOutcome(am_smtp, i) = "ok"

\* the dispatch of the first alert of a check failed; the check returned, and
\* its later alerts are in the history and were sent
C21_Witness ==
    /\ am_n = 1
    /\ am_smtp = "first_fails"
    /\ Len(am_returned) >= 3
    /\ alert_history = am_returned
    /\ am_failed = <<am_returned[1]>>
    /\ am_sent = Tail(am_returned)

\* the alert is within the bounds of the query and has its level
Matches(q, alert) ==
    /\ q.start_time # <<>> => q.start_time[1] <= alert.timestamp
    /\ q.end_time # <<>> => alert.timestamp <= q.end_time[1]
    /\ q.level # <<>> => alert.level = q.level[1]
\* the entries of seq that pass, in the order of seq
RECURSIVE Keep(_, _, _)
Keep(seq, q, i) ==
    IF i > Len(seq) THEN <<>>
    ELSE (IF Matches(q, seq[i]) THEN <<seq[i]>> ELSE <<>>) \o Keep(seq, q, i + 1)
IsPrefix(a, b) == Len(a) <= Len(b) /\ SubSeq(b, 1, Len(a)) = a

\* C22: get_alert_history returns the alerts of the history with start <=
\* timestamp <= end and the level asked for, each of the three optional, in
\* insertion order; the query leaves the history as it is, and every step
\* only appends to the history
C22_HistoryQuery ==
    /\ [](am_queried => \A q \in Queries : am_filtered[q] = Keep(alert_history, q, 1))
    /\ [][/\ IsPrefix(alert_history, alert_history')
          /\ (am_queried' /\ ~am_queried) => alert_history' = alert_history]_vars

\* a query for the warnings of the second check returns some of the alerts of
\* a history that holds alerts of both checks
C22_Witness ==
    /\ am_queried
    /\ am_n = 2
    /\ \E i \in 1..Len(alert_history) : alert_history[i].timestamp = 1
    /\ LET r == am_filtered[[start_time |-> <<2>>, end_time |-> <<2>>,
                             level |-> <<"WARNING">>]]
       IN  /\ Len(r) >= 2
           /\ Len(r) < Len(alert_history)
           /\ \A i \in 1..Len(r) : r[i].timestamp = 2 /\ r[i].level = "WARNING"

\* C23: after any sequence of updates the latency window of the source holds
\* at most 100 samples, and they are the most recent samples recorded, in
\* the order they arrived; the 101st sample evicts the first one
C23_LatencyWindowBounded ==
    mc_pc = "ready" =>
        /\ Len(mc_latency) <= 100
        /\ Len(mc_latency) = Min(mc_seen, 100)
        /\ \A i \in 1..Len(mc_latency) :
               mc_latency[i] = Sample(mc_series, mc_seen - Len(mc_latency) + i)

\* the 101st sample has arrived: the window holds samples 2 to 101, of two
\* values in turn, and the first sample, of a third value, is gone
C23_Witness ==
    /\ mc_pc = "ready"
    /\ mc_seen = 101
    /\ mc_series.first = 103
    /\ mc_series.alt = 1
    /\ Len(mc_latency) = 100
    /\ mc_latency[1] = Sample(mc_series, 2)
    /\ mc_latency[100] = Sample(mc_series, 101)
    /\ mc_latency[1] # mc_latency[100]
    /\ \A i \in 1..100 : mc_latency[i] # 103

\* what the collector holds for a source, <<>> if it holds nothing
EntryOf(source) ==
    IF source = "source_1"
    THEN IF mc_metrics = NoMetrics THEN <<>> ELSE <<mc_metrics, mc_latency>>
    ELSE IF source \in DOMAIN mc_rest
         THEN <<[total_records |-> mc_rest[source].total_records,
                 error_count |-> mc_rest[source].error_count],
                mc_rest[source].latency>>
         ELSE <<>>
AllSources == {"source_1", "source_2", UnknownSource}

\* C24: a call of record_ingestion_metrics or reset_metrics for a source
\* leaves the entry of every other source as it was, in every order in which
\* the calls of two sources interleave, and reset_metrics for a source the
\* collector does not know changes no entry
C24_SourcesIsolated ==
    [][/\ \A s \in AllSources : s # mc_call'.source => EntryOf(s)' = EntryOf(s)
       /\ (mc_call'.op = "reset" /\ EntryOf(mc_call'.source) = <<>>) =>
              \A s \in AllSources : EntryOf(s)' = EntryOf(s)]_vars

\* source_1 has just been reset after both sources reported: its entry is
\* empty and the entry of source_2 still has its records and its samples
C24_Witness ==
    /\ mc_call = [op |-> "reset", source |-> "source_1"]
    /\ EntryOf("source_1") = <<NewMetrics, <<>>>>
    /\ mc_log # <<>>
    /\ "source_2" \in DOMAIN mc_rest
    /\ mc_rest["source_2"].total_records > 0
    /\ mc_rest["source_2"].latency # <<>>

\* C25: the pool, created on first use, stays open until the process shuts
\* down, so while a load is between its initialize and its finally the pool
\* it uses is open
C25_PoolOpenForLoadsInFlight ==
    /\ tl_pc \in {"loop", "insert"} => pool = "open"
    /\ peer_pc = "loading" => pool = "open"

\* the stages of a run, from one to the next
RunEdges ==
    {<<"start", "extract">>, <<"extract", "load">>, <<"load", "completed">>,
     <<"start", "failed">>, <<"extract", "failed">>, <<"load", "failed">>}
LoadStarted == s1_pc # "idle"

\* C26: a run moves through extracting, validating (the transform), loading
\* and reporting in this order: the load starts only when the whole raw
\* sequence has been extracted and every record of it validated, the metrics
\* are recorded once, and only with the result the load returned, and a run
\* that can take no further step is completed or failed
C26_StagesInOrder ==
    /\ [](/\ LoadStarted =>
               /\ run_pc \in {"load", "completed", "failed"}
               /\ sx_pc = "returned"
               /\ run_raw = sx_ret.data
               /\ s1_data = transform(run_raw)
          /\ metrics # NoMetrics =>
               /\ run_pc = "completed"
               /\ s1_pc = "returned"
               /\ run_result = s1_result
               /\ metrics = [total_records |-> run_result.records_processed,
                             error_count |-> Len(run_result.errors)]
          /\ run_pc = "completed" => metrics # NoMetrics
          /\ ~ENABLED NextRun => run_pc \in {"completed", "failed"})
    /\ [][run_pc' # run_pc => <<run_pc, run_pc'>> \in RunEdges]_vars

\* a run has completed: two raw records were extracted, validated and
\* loaded, and the metrics count them
C26_Witness ==
    /\ run_pc = "completed"
    /\ Len(run_raw) >= 2
    /\ Len(rows) >= 1
    /\ metrics.total_records = run_result.records_processed
    /\ metrics.total_records >= 1

\* C27: when the extraction raises the run fails with that error, and it has
\* validated nothing, loaded nothing and recorded no metrics
C27_ExtractionFailureFailsRun ==
    sx_pc = "raised" =>
        /\ run_pc \in {"extract", "failed"}
        /\ run_pc = "failed" => run_exc = sx_exc
        /\ run_raw = <<>>
        /\ IdleS1
        /\ run_result = NoResult
        /\ metrics = NoMetrics

\* the extraction raised on a later page and the run has failed with its error
C27_Witness ==
    /\ sx_pc = "raised"
    /\ run_pc = "failed"
    /\ run_exc = sx_exc
    /\ sx_all # <<>>
    /\ ~ENABLED NextRun

\* C28: a load cancelled between two batches returns the results it has
\* accumulated by then
C28_CancelledLoadReturnsResults ==
    (tl_exc = "cancelled" /\ tl_i > 0 /\ tl_j = 0 /\ tl_pc \in {"returned", "raised"}) =>
        tl_pc = "returned"

\* C29: a request that times out on an attempt that is not the last one is
\* followed by the backoff of that attempt, as a request that failed with a
\* transport error is: the page is tried again
C29_TimeoutIsRetried ==
    \A i \in RequestIdx(ex_log) :
        (ex_log[i].out = "TimeoutError" /\ ~IsFinalAttempt(ex_cfg, ex_log[i].attempt)) =>
            /\ i < Len(ex_log)
            /\ ex_log[i + 1] = SleepEv("backoff", BackoffDelay(ex_cfg, ex_log[i].attempt))
            /\ ex_exc # "TimeoutError"

\* the places of the backoff sleeps of a log
BackoffIdx(log) == {i \in 1..Len(log) : log[i].ev = "sleep" /\ log[i].out = "backoff"}

\* C30 (amended): the delays grow linearly. The delay before the retry that
\* follows the k-th failed attempt of a page is retry_delay * k, the delays
\* of a page never decrease, every backoff is followed by nothing or by the
\* next attempt for the same page, and the failure of the final attempt is
\* followed by nothing
C30_BackoffLinear ==
    /\ \A i \in BackoffIdx(ex_log) :
          /\ i > 1
          /\ IsRequest(ex_log, i - 1)
          /\ ex_log[i - 1].out \in ClientErrors
          /\ ex_log[i].ms = 1000 * ex_cfg.retry_delay * (ex_log[i - 1].attempt + 1)
          /\ i < Len(ex_log) =>
                /\ IsRequest(ex_log, i + 1)
                /\ ex_log[i + 1].page = ex_log[i - 1].page
                /\ ex_log[i + 1].attempt = ex_log[i - 1].attempt + 1
    /\ \A i, j \in BackoffIdx(ex_log) :
          (i < j /\ ex_log[i - 1].page = ex_log[j - 1].page) => ex_log[i].ms <= ex_log[j].ms
    /\ \A i \in RequestIdx(ex_log) :
          (ex_log[i].out # "ok" /\ ex_log[i].attempt = ex_cfg.retry_attempts - 1) =>
              i = Len(ex_log)

\* three attempts for a page have failed: the backoffs taken were
\* retry_delay, twice and three times retry_delay, and the failure of the
\* fourth and last attempt ended the extraction
C30_Witness ==
    /\ ex_pc = "raised"
    /\ ex_log[Len(ex_log)].attempt = ex_cfg.retry_attempts - 1
    /\ \E i \in BackoffIdx(ex_log) :
          /\ i + 4 \in BackoffIdx(ex_log)
          /\ ex_log[i].ms = 1000 * ex_cfg.retry_delay
          /\ ex_log[i + 2].ms = 2000 * ex_cfg.retry_delay
          /\ ex_log[i + 4].ms = 3000 * ex_cfg.retry_delay

\* C30 (as claimed): the delays grow exponentially: three successive backoff
\* delays of a page are in geometric progression
C30_BackoffExponential ==
    \A i \in BackoffIdx(ex_log) :
        (i + 4 \in BackoffIdx(ex_log) /\ ex_log[i - 1].page = ex_log[i + 3].page) =>
            ex_log[i + 2].ms * ex_log[i + 2].ms = ex_log[i].ms * ex_log[i + 4].ms

\* the requests of a log that returned a page, and the dates of a range
PagesOf(log) == SelectSeq(log, LAMBDA e : e.ev = "request" /\ e.out = "ok")
DatesOf(start, end) == {d \in start..(end - 1) : (d - start) % Day = 0}
\* the pages that had returned before place i of the log
ReturnedBefore(log, i) ==
    Cardinality({j \in 1..(i - 1) : log[j].ev = "request" /\ log[j].out = "ok"})

\* C31: fetch_data covers the half-open range from start to end. Every
\* request is for the date after the last page that returned, so the pages
\* return in increasing order, one a date, each requested after the one
\* before it has returned; an extraction that returns has fetched the page of
\* every date of the range that is before end, and those only; for start >=
\* end nothing is requested; and an extraction that can take no further step
\* has returned its list or raised
C31_CoversHalfOpenRange ==
    ex_pc # "idle" =>
        /\ \A i \in RequestIdx(ex_log) :
              /\ ex_log[i].page = StartDate + Day * ReturnedBefore(ex_log, i)
              /\ ex_log[i].page < ex_end
        /\ ex_pc = "returned" =>
              LET pages == PagesOf(ex_log)
              IN /\ {pages[i].page : i \in 1..Len(pages)} = DatesOf(StartDate, ex_end)
                 /\ Len(pages) = Cardinality(DatesOf(StartDate, ex_end))
                 /\ ex_ret = Return(ex_all)
                 /\ Len(ex_all) = SumN(pages)
        /\ ex_end <= StartDate => (ex_log = <<>> /\ ex_pc \in {"loop", "returned"})
        /\ ~ENABLED NextExtract => ex_pc \in {"returned", "raised"}

\* a range that ends in the middle of the second day: the pages of the first
\* and of the second day were fetched, the first one on a retry
C31_Witness ==
    /\ ex_pc = "returned"
    /\ ex_end = StartDate + Day + 1
    /\ Len(PagesOf(ex_log)) = 2
    /\ PagesOf(ex_log)[1].attempt = 1
    /\ PagesOf(ex_log)[2].page = StartDate + Day
    /\ Len(ex_ret.data) >= 2

----------------------------------------------------------------------------
----------------------------------------------------------------------------
\* C33: the LoadResult the source_1 loader returns has success exactly when
\* its error list is empty, and records_processed is the number of records
\* whose partition-ensure and insert both succeeded (the rows written); when
\* there are records and no insert succeeds, the result has success false,
\* records_processed 0 and at least one error.
C33_LoadResultConsistent ==
    s1_pc = "returned" =>
        /\ s1_result.success <=> (s1_result.errors = <<>>)
        /\ s1_result.records_processed = Len(rows)
        /\ (Len(s1_data) >= 1 /\ Len(rows) = 0) =>
              /\ ~s1_result.success
              /\ s1_result.records_processed = 0
              /\ s1_result.errors # <<>>

\* two records, the insert of each failed
C33_Witness ==
    /\ s1_pc = "returned"
    /\ Len(s1_data) = 2
    /\ Len(s1_result.errors) = 2
    /\ \A i \in 1..2 : s1_result.errors[i].error = "insert_error"
    /\ ~s1_result.success
    /\ s1_result.records_processed = 0

----------------------------------------------------------------------------
(* Properties of the in-memory AlertManager, checked under SpecAlerts *)

\* the places of the stored alerts of a level, in order
PlacesOf(stored, level) == {i \in 1..Len(stored) : stored[i].level = level}
\* seq is the alerts of stored at the places of idx, in the order of stored
IsSelection(seq, stored, idx) ==
    /\ Len(seq) = Cardinality(idx)
    /\ \A k \in 1..Len(seq) :
          \E i \in idx :
             /\ seq[k] = stored[i]
             /\ Cardinality({j \in idx : j < i}) = k - 1

\* C34: create_alert leaves the stored alerts as they were and adds the
\* alert it returns at the end; get_alerts(level) returns the stored alerts
\* of that level in insertion order (all of them when no level is given) and
\* leaves the stored list as it was; the stored list holds exactly the alerts
\* created since the last clear_alerts, so that get_alerts returns the empty
\* list after clear_alerts until create_alert is called again.
C34_AlertListAppendOnly ==
    /\ ia_call.op = "create" =>
          /\ ia_alerts = Append(ia_prev, ia_ret)
          /\ ia_ret.level = ia_call.level
    /\ ia_call.op = "get" =>
          /\ ia_alerts = ia_prev
          /\ IF ia_call.level = None
             THEN ia_ret = ia_alerts
             ELSE IsSelection(ia_ret, ia_alerts, PlacesOf(ia_alerts, ia_call.level))
    /\ ia_call.op = "clear" => ia_alerts = <<>>
    /\ Len(ia_alerts) = ia_since
    /\ (ia_call.op = "get" /\ ia_since = 0) => ia_ret = <<>>

\* three alerts stored, the first and the last of the level asked for
C34_Witness ==
    /\ ia_call = IACall("get", "error")
    /\ Len(ia_alerts) = 3
    /\ ia_alerts[2].level = "warning"
    /\ ia_ret = <<ia_alerts[1], ia_alerts[3]>>
    /\ ia_n > ia_since

----------------------------------------------------------------------------
(* Properties of the shared pool, checked under SpecShared *)

\* C35 (as claimed): every statement of a load, the partition-ensure and the
\* insert, runs on the connection that holds the load's open transaction
C35_StatementsOnTransactionConnection ==
    \A l \in DOMAIN cx_load :
       \A r \in cx_load[l].ran :
          cx_load[l].tx # NoConn => r.conn = cx_load[l].tx

\* the loads whose transaction scope is open
InTransaction == {l \in DOMAIN cx_load : cx_load[l].tx # NoConn}
\* every connection of the pool is held by the transaction of a load that
\* waits for one more connection
PoolExhausted ==
    /\ cx_ref # 0
    /\ Free(cx_ref) = {}
    /\ \A conn \in Held(cx_ref) :
          \E l \in InTransaction : cx_load[l].tx = conn /\ cx_load[l].pc = "acquire"

\* C36 (as claimed): no state is reachable in which every connection of the
\* pool is held by the open transaction of a load that waits to acquire one
\* more, and a state in which no load can take a step is one in which every
\* load has returned
C36_LoadsNeverExhaustPool ==
    /\ ~PoolExhausted
    /\ ~ENABLED NextShared => \A l \in DOMAIN cx_load : cx_load[l].pc = "returned"

\* C37 (as claimed): the first uses of the pool, concurrent or not, create
\* one pool, and every pool that was created is the one DatabaseManager._pool
\* refers to (no pool is closed by these loads)
C37_OnePoolCreated ==
    /\ cx_created <= 1
    /\ \A p \in 1..cx_created : p = cx_ref

----------------------------------------------------------------------------
\* C38 (as claimed): when a run of at least one record completes with a
\* result in which no record was loaded and every record has its error, the
\* metrics check at the end of the run writes an error-rate warning
C38_AllFailedRunDetected ==
    (/\ run_pc = "completed"
     /\ Len(s1_data) >= 1
     /\ run_result.records_processed = 0
     /\ Len(run_result.errors) = Len(s1_data)
     /\ \A i \in 1..Len(run_result.errors) : run_result.errors[i].scope = "record") =>
        \E i \in 1..Len(run_log) : run_log[i] = LogRecord("WARNING", "error_rate")

----------------------------------------------------------------------------
\* C39 (as claimed): validate returns a ValidationResult for every record,
\* also for a validator with no custom rule: it never raises, and a record
\* whose timestamp is present but no string has its problem among the errors
C39_ValidateTotal ==
    (dv_pc = "done" /\ dv_rules = <<>>) =>
        /\ dv_result.raised = "none"
        /\ (Present(dv_data, "timestamp") /\ dv_data["timestamp"].t # "str") =>
              (~dv_result.is_valid /\ dv_result.errors # <<>>)

----------------------------------------------------------------------------
\* C40 (as claimed): whatever retry_attempts is configured, 0 included, a
\* call of _fetch_page sends at least one request for its page and ends by
\* returning the page or by raising the error of its last request: an
\* extraction that ended after a page was fetched has a request in its log,
\* and when it raised, the exception is the failure of its last request
C40_FetchPageAlwaysRequests ==
    (ex_pc \in {"returned", "raised"} /\ InRange(StartDate, ex_end)) =>
        LET requests == RequestsOf(ex_log)
        IN /\ requests # <<>>
           /\ ex_pc = "raised" => ex_exc = requests[Len(requests)].out
====
